---- MODULE Spec2Model ----
(***************************************************************************)
(* TerraExplorer, services/geminiService.ts: the retrying invoker, the     *)
(* JSON extraction and repair helpers, and the six request orchestrators.  *)
(*                                                                         *)
(* Texts are sequences of one-character strings.  Indices are 1-based, and *)
(* 0 stands for JavaScript's -1 ("not found").                             *)
(***************************************************************************)
EXTENDS Integers, Sequences, FiniteSets, TLC

VARIABLES op, lat, lng, exclude, budget, retries, pc, calls, failures, sleeps,
          lastError, thrown, response, parsedData, parseFailureLogged, outcome, result,
          inflight, repair, app

\* one invocation of an orchestrator, followed from its call to its result
single == <<op, lat, lng, exclude, budget, retries, pc, calls, failures, sleeps,
            lastError, thrown, response, parsedData, parseFailureLogged, outcome, result>>

\* what a single invocation leaves alone: the invocations in flight side by
\* side, a run of repairTruncatedJson on a candidate of its own, and the App
\* component that calls the orchestrators
aside == <<inflight, repair, app>>

vars == <<op, lat, lng, exclude, budget, retries, pc, calls, failures, sleeps,
          lastError, thrown, response, parsedData, parseFailureLogged, outcome, result,
          inflight, repair, app>>

(***************************************************************************)
(* Characters and substrings                                               *)
(***************************************************************************)
Min(S) == CHOOSE x \in S : \A y \in S : x <= y

Max(S) == CHOOSE x \in S : \A y \in S : x >= y

\* the white space trim(), \s and JSON.parse skip, within the modelled alphabet
Whitespace == {" ", "\n", "\t", "\r"}

Digits == {"0", "1", "2", "3", "4", "5", "6", "7", "8", "9"}

\* String.prototype.toLowerCase, letter by letter
LowerChar(c) ==
    CASE c = "A" -> "a" [] c = "B" -> "b" [] c = "C" -> "c" [] c = "D" -> "d"
      [] c = "E" -> "e" [] c = "F" -> "f" [] c = "G" -> "g" [] c = "H" -> "h"
      [] c = "I" -> "i" [] c = "J" -> "j" [] c = "K" -> "k" [] c = "L" -> "l"
      [] c = "M" -> "m" [] c = "N" -> "n" [] c = "O" -> "o" [] c = "P" -> "p"
      [] c = "Q" -> "q" [] c = "R" -> "r" [] c = "S" -> "s" [] c = "T" -> "t"
      [] c = "U" -> "u" [] c = "V" -> "v" [] c = "W" -> "w" [] c = "X" -> "x"
      [] c = "Y" -> "y" [] c = "Z" -> "z" [] OTHER -> c

toLowerCase(s) == [i \in 1..Len(s) |-> LowerChar(s[i])]

\* p occurs in s at position i
HasAt(s, i, p) ==
    /\ i >= 1
    /\ i + Len(p) - 1 <= Len(s)
    /\ \A k \in 1..Len(p) : s[i + k - 1] = p[k]

\* String.prototype.indexOf(p, from): least position >= i where p occurs, 0 if none
IndexOfFrom(s, p, i) ==
    LET J == {j \in i..(Len(s) - Len(p) + 1) : HasAt(s, j, p)}
    IN  IF J = {} THEN 0 ELSE Min(J)

indexOf(s, p) == IndexOfFrom(s, p, 1)

\* String.prototype.lastIndexOf(p)
lastIndexOf(s, p) ==
    LET J == {j \in 1..(Len(s) - Len(p) + 1) : HasAt(s, j, p)}
    IN  IF J = {} THEN 0 ELSE Max(J)

includes(s, p) == indexOf(s, p) # 0

startsWith(s, p) == HasAt(s, 1, p)

\* s.replace(/p/g, ''): every non-overlapping occurrence, left to right
RECURSIVE RemoveAll(_, _)
RemoveAll(s, p) ==
    LET i == indexOf(s, p)
    IN  IF i = 0 THEN s
        ELSE SubSeq(s, 1, i - 1) \o RemoveAll(SubSeq(s, i + Len(p), Len(s)), p)

\* s.replace(/p/gi, ''), p in lower case
RECURSIVE RemoveAllIgnoreCase(_, _)
RemoveAllIgnoreCase(s, p) ==
    LET i == indexOf(toLowerCase(s), p)
    IN  IF i = 0 THEN s
        ELSE SubSeq(s, 1, i - 1)
               \o RemoveAllIgnoreCase(SubSeq(s, i + Len(p), Len(s)), p)

\* String.prototype.trim
trim(s) ==
    LET K == {k \in 1..Len(s) : s[k] \notin Whitespace}
    IN  IF K = {} THEN <<>> ELSE SubSeq(s, Min(K), Max(K))

\* the characters of s at the positions K, in order
KeepIndices(s, K) ==
    LET kept == SelectSeq([i \in 1..Len(s) |-> i], LAMBDA i : i \in K)
    IN  [i \in 1..Len(kept) |-> s[kept[i]]]

\* the character U+0060 (grave accent), which a TLA+ string cannot hold
Backtick == "U+0060"

Fence == <<Backtick, Backtick, Backtick>>

FenceJson == Fence \o <<"j", "s", "o", "n">>

Ellipsis == <<".", ".", ".">>

\* the single character U+2026
UnicodeEllipsis == <<"\\u2026">>

(***************************************************************************)
(* cleanJsonString                                                         *)
(***************************************************************************)
\* the rest r of a text matches \s*[\]}] at its start
ClosesAfterSpace(r) ==
    LET K == {k \in 1..Len(r) : r[k] \notin Whitespace}
    IN  K # {} /\ r[Min(K)] \in {"]", "}"}

\* s.replace(/,(\s*[\]}])/g, '$1'): a match starts at a comma and holds no
\* other comma, so every comma that \s*[\]}] follows is dropped
RemoveTrailingCommas(s) ==
    KeepIndices(s, {k \in 1..Len(s) :
                      ~(s[k] = "," /\ ClosesAfterSpace(SubSeq(s, k + 1, Len(s))))})

cleanJsonString(str) ==
    IF str = <<>> THEN <<>>
    ELSE trim(RemoveTrailingCommas(
              RemoveAll(RemoveAll(RemoveAll(RemoveAllIgnoreCase(str, FenceJson),
                                            Fence),
                                  Ellipsis),
                        UnicodeEllipsis)))

(***************************************************************************)
(* repairTruncatedJson                                                     *)
(***************************************************************************)
\* a scan that takes every double quote for a delimiter, escaped or not
ScanStepNoEscape(state, c) ==
    IF c = "\"" THEN <<~state[1], FALSE>> ELSE <<state[1], FALSE>>

\* the body of the loop of lines 110-119 at character c
ScanStep(state, c) ==
    LET inString == state[1]
        isEscaped == state[2]
    IN  IF c = "\\" THEN <<inString, ~isEscaped>>
        ELSE IF c = "\"" /\ ~isEscaped THEN <<~inString, FALSE>>
        ELSE <<inString, FALSE>>

\* the loop run over fixed[lo..hi] from state <<inString, isEscaped>>.  The
\* range is split in two and the state after the first half is computed before
\* the second half starts (the singleton set), which keeps the evaluation shallow.
RECURSIVE ScanQuotes(_, _, _, _)
ScanQuotes(fixed, lo, hi, state) ==
    IF lo > hi THEN state
    ELSE IF lo = hi THEN ScanStep(state, fixed[lo])
    ELSE LET mid == (lo + hi) \div 2
         IN  CHOOSE after \in {ScanQuotes(fixed, mid + 1, hi, half) :
                                 half \in {ScanQuotes(fixed, lo, mid, state)}} : TRUE

EndsInString(fixed) == ScanQuotes(fixed, 1, Len(fixed), <<FALSE, FALSE>>)[1]

\* "." of a regular expression without the s flag: anything but a line terminator
LineTerminators == {"\n", "\r"}

\* /"([^"\\]*(\\.[^"\\]*)*)"/ tried at an opening quote: j scans the body;
\* the position of the closing quote, or 0 when the literal is not closed
RECURSIVE StringLiteralEnd(_, _)
StringLiteralEnd(s, j) ==
    IF j > Len(s) THEN 0
    ELSE IF s[j] = "\"" THEN j
    ELSE IF s[j] = "\\"
         THEN IF j + 1 <= Len(s) /\ s[j + 1] \notin LineTerminators
              THEN StringLiteralEnd(s, j + 2)
              ELSE 0
    ELSE StringLiteralEnd(s, j + 1)

\* fixed.replace(/"([^"\\]*(\\.[^"\\]*)*)"/g, '""'), scanning from position i
RECURSIVE StripStrings(_, _)
StripStrings(s, i) ==
    IF i > Len(s) THEN <<>>
    ELSE IF s[i] = "\"" /\ StringLiteralEnd(s, i + 1) # 0
         THEN <<"\"", "\"">> \o StripStrings(s, StringLiteralEnd(s, i + 1) + 1)
         ELSE <<s[i]>> \o StripStrings(s, i + 1)

\* (stripped.match(/c/g) || []).length
CountChar(s, c) == Cardinality({k \in 1..Len(s) : s[k] = c})

\* the for loops of lines 137-138: n copies of c, none when n <= 0
Repeat(c, n) == [k \in 1..n |-> c]

\* a repair that closes the brackets before the braces
repairBracketsFirst(jsonStr) ==
    LET trimmed == trim(jsonStr)
        fixed == IF EndsInString(trimmed) THEN Append(trimmed, "\"") ELSE trimmed
        stripped == StripStrings(fixed, 1)
    IN  IF trimmed = <<>> THEN <<"{", "}">>
        ELSE fixed \o Repeat("]", CountChar(stripped, "[") - CountChar(stripped, "]"))
                   \o Repeat("}", CountChar(stripped, "{") - CountChar(stripped, "}"))

repairTruncatedJson(jsonStr) ==
    LET trimmed == trim(jsonStr)
        fixed == IF EndsInString(trimmed) THEN Append(trimmed, "\"") ELSE trimmed
        stripped == StripStrings(fixed, 1)
        openBraces == CountChar(stripped, "{")
        closeBraces == CountChar(stripped, "}")
        openBrackets == CountChar(stripped, "[")
        closeBrackets == CountChar(stripped, "]")
    IN  IF trimmed = <<>> THEN <<"{", "}">>
        ELSE fixed \o Repeat("}", openBraces - closeBraces)
                   \o Repeat("]", openBrackets - closeBrackets)

(***************************************************************************)
(* JavaScript values.  t is the type; null and arrays, which typeof calls  *)
(* "object", have types of their own.  An object is a function from its    *)
(* keys (texts) to values; an array may carry own named properties too.    *)
(***************************************************************************)
Undefined == [t |-> "undefined"]

Null == [t |-> "null"]

Bool(b) == [t |-> "boolean", b |-> b]

\* a decimal number: sign, integer part, fraction digits without trailing zeros
Number(neg, int, frac) == [t |-> "number", neg |-> neg, int |-> int, frac |-> frac]

Num(k) == Number(k < 0, IF k < 0 THEN -k ELSE k, <<>>)

Str(s) == [t |-> "string", s |-> s]

NoProps == <<>>

Arr(a) == [t |-> "array", a |-> a, props |-> NoProps]

Obj(o) == [t |-> "object", o |-> o]

EmptyObject == Obj(NoProps)

\* o with o[k] = v
WithKey(o, k, v) == [x \in (DOMAIN o) \cup {k} |-> IF x = k THEN v ELSE o[x]]

\* ToBoolean
Truthy(v) ==
    CASE v.t = "undefined" -> FALSE
      [] v.t = "null" -> FALSE
      [] v.t = "boolean" -> v.b
      [] v.t = "number" -> v.int # 0 \/ v.frac # <<>>
      [] v.t = "string" -> v.s # <<>>
      [] OTHER -> TRUE

\* a || b
OrElse(a, b) == IF Truthy(a) THEN a ELSE b

IsNullish(v) == v.t \in {"undefined", "null"}

IsPrimitive(v) == v.t \in {"boolean", "number", "string"}

\* Array.isArray
IsArray(v) == v.t = "array"

\* v.k for a value that is not nullish and a key k that no prototype defines
Get(v, k) ==
    CASE v.t = "object" -> IF k \in DOMAIN v.o THEN v.o[k] ELSE Undefined
      [] v.t = "array" -> IF k \in DOMAIN v.props THEN v.props[k] ELSE Undefined
      [] OTHER -> Undefined

\* v.k = x on an object or an array
Set(v, k, x) ==
    IF v.t = "object" THEN Obj(WithKey(v.o, k, x))
    ELSE [v EXCEPT !.props = WithKey(v.props, k, x)]

(***************************************************************************)
(* JSON.parse.  A result is [ok, v, i]: whether a value was read, the      *)
(* value, and the position after it.  Numbers are decimals without an      *)
(* exponent and strings have no \u escapes: the modelled texts use neither.*)
(***************************************************************************)
Failed == [ok |-> FALSE, v |-> Undefined, i |-> 0]

Parsed(v, i) == [ok |-> TRUE, v |-> v, i |-> i]

\* the first position >= i that holds no white space (Len(s) + 1 if none)
SkipSpace(s, i) == Min({j \in i..(Len(s) + 1) : j > Len(s) \/ s[j] \notin Whitespace})

\* the first position >= i that holds no digit
SkipDigits(s, i) == Min({j \in i..(Len(s) + 1) : j > Len(s) \/ s[j] \notin Digits})

DigitValue(c) ==
    CASE c = "0" -> 0 [] c = "1" -> 1 [] c = "2" -> 2 [] c = "3" -> 3
      [] c = "4" -> 4 [] c = "5" -> 5 [] c = "6" -> 6 [] c = "7" -> 7
      [] c = "8" -> 8 [] c = "9" -> 9

RECURSIVE DigitsValue(_)
DigitsValue(d) ==
    IF d = <<>> THEN 0
    ELSE 10 * DigitsValue(SubSeq(d, 1, Len(d) - 1)) + DigitValue(d[Len(d)])

RECURSIVE DropTrailingZeros(_)
DropTrailingZeros(d) ==
    IF d # <<>> /\ d[Len(d)] = "0" THEN DropTrailingZeros(SubSeq(d, 1, Len(d) - 1))
    ELSE d

\* -?(0|[1-9][0-9]*)(\.[0-9]+)? at position i
ParseNumber(s, i) ==
    LET neg == s[i] = "-"
        j == IF neg THEN i + 1 ELSE i
        k == IF j <= Len(s) /\ s[j] = "0" THEN j + 1 ELSE SkipDigits(s, j)
        hasFrac == k <= Len(s) /\ s[k] = "."
        m == IF hasFrac THEN SkipDigits(s, k + 1) ELSE k
        int == DigitsValue(SubSeq(s, j, k - 1))
        frac == IF hasFrac THEN DropTrailingZeros(SubSeq(s, k + 1, m - 1)) ELSE <<>>
    IN  IF k = j \/ (hasFrac /\ m = k + 1) THEN Failed
        ELSE IF m <= Len(s) /\ s[m] \in {"e", "E"} THEN Failed
        ELSE Parsed(Number(neg /\ (int # 0 \/ frac # <<>>), int, frac), m)

Unescape(c) ==
    CASE c = "n" -> "\n" [] c = "t" -> "\t" [] c = "r" -> "\r"
      [] c = "b" -> "\\b" [] c = "f" -> "\f" [] OTHER -> c

\* the closing quote of the string literal whose body starts at j, 0 when the
\* literal is not closed, escapes wrongly, or holds a raw control character
RECURSIVE StringEnd(_, _)
StringEnd(s, j) ==
    IF j > Len(s) THEN 0
    ELSE IF s[j] = "\"" THEN j
    ELSE IF s[j] = "\\"
         THEN IF j + 1 <= Len(s) /\ s[j + 1] \in {"\"", "\\", "/", "n", "t", "r", "b", "f"}
              THEN StringEnd(s, j + 2)
              ELSE 0
    ELSE IF s[j] \in {"\n", "\t", "\r"} THEN 0
    ELSE StringEnd(s, j + 1)

\* the number of backslashes that directly precede position k of body
BackslashesBefore(body, k) ==
    k - 1 - Max({0} \cup {m \in 1..(k - 1) : body[m] # "\\"})

\* the characters a well-formed literal body denotes: a backslash after an even
\* number of backslashes introduces an escape, the character after it is escaped
Unescaped(body) ==
    LET Escaped(k) == BackslashesBefore(body, k) % 2 = 1
        kept == KeepIndices([k \in 1..Len(body) |->
                                IF Escaped(k) THEN Unescape(body[k]) ELSE body[k]],
                            {k \in 1..Len(body) : Escaped(k) \/ body[k] # "\\"})
    IN  kept

\* the string literal whose opening quote is at i
ParseString(s, i) ==
    LET end == StringEnd(s, i + 1)
    IN  IF end = 0 THEN Failed
        ELSE Parsed(Str(Unescaped(SubSeq(s, i + 1, end - 1))), end + 1)

RECURSIVE ParseValue(_, _), ParseElements(_, _), ParseMembers(_, _)
\* the array whose elements were read as items
ArrayOf(items) == IF items.ok THEN Parsed(Arr(items.v), items.i) ELSE Failed

\* the object whose members were read as members
ObjectOf(members) == IF members.ok THEN Parsed(Obj(members.v), members.i) ELSE Failed

\* element v in front of the elements read as rest
PrependElement(v, rest) ==
    IF rest.ok THEN Parsed(<<v>> \o rest.v, rest.i) ELSE Failed

\* member k: v in front of the members read as rest, a later member replacing
\* an earlier one of the same key
AddMember(k, v, rest) ==
    IF rest.ok
    THEN Parsed(IF k \in DOMAIN rest.v THEN rest.v ELSE WithKey(rest.v, k, v), rest.i)
    ELSE Failed

\* what follows element e of an array: its "]" or a comma and more elements
ElementsAfter(s, e) ==
    IF ~e.ok THEN Failed
    ELSE LET j == SkipSpace(s, e.i)
         IN  IF j > Len(s) THEN Failed
             ELSE IF s[j] = "]" THEN Parsed(<<e.v>>, j + 1)
             ELSE IF s[j] = "," THEN PrependElement(e.v, ParseElements(s, j + 1))
             ELSE Failed

\* what follows the value val of member k: the "}" or a comma and more members
MembersAfter(s, k, val) ==
    IF ~val.ok THEN Failed
    ELSE LET j == SkipSpace(s, val.i)
         IN  IF j > Len(s) THEN Failed
             ELSE IF s[j] = "}" THEN Parsed(WithKey(NoProps, k, val.v), j + 1)
             ELSE IF s[j] = "," THEN AddMember(k, val.v, ParseMembers(s, j + 1))
             ELSE Failed

\* what follows the key of a member: a colon and the member's value
MemberAfterKey(s, key) ==
    IF ~key.ok THEN Failed
    ELSE LET c == SkipSpace(s, key.i)
         IN  IF c <= Len(s) /\ s[c] = ":"
             THEN MembersAfter(s, key.v.s, ParseValue(s, c + 1))
             ELSE Failed

ParseValue(s, i0) ==
    LET i == SkipSpace(s, i0)
    IN  IF i > Len(s) THEN Failed
        ELSE IF HasAt(s, i, <<"n", "u", "l", "l">>) THEN Parsed(Null, i + 4)
        ELSE IF HasAt(s, i, <<"t", "r", "u", "e">>) THEN Parsed(Bool(TRUE), i + 4)
        ELSE IF HasAt(s, i, <<"f", "a", "l", "s", "e">>) THEN Parsed(Bool(FALSE), i + 5)
        ELSE IF s[i] = "\"" THEN ParseString(s, i)
        ELSE IF s[i] \in Digits \cup {"-"} THEN ParseNumber(s, i)
        ELSE IF s[i] = "["
             THEN LET j == SkipSpace(s, i + 1)
                  IN  IF j <= Len(s) /\ s[j] = "]" THEN Parsed(Arr(<<>>), j + 1)
                      ELSE ArrayOf(ParseElements(s, j))
        ELSE IF s[i] = "{"
             THEN LET j == SkipSpace(s, i + 1)
                  IN  IF j <= Len(s) /\ s[j] = "}" THEN Parsed(EmptyObject, j + 1)
                      ELSE ObjectOf(ParseMembers(s, j))
        ELSE Failed

\* the elements of an array from position i up to its "]": v is their sequence
ParseElements(s, i) == ElementsAfter(s, ParseValue(s, i))

\* the members of an object from position i0 up to its "}": v maps keys to values
ParseMembers(s, i0) ==
    LET i == SkipSpace(s, i0)
    IN  IF i <= Len(s) /\ s[i] = "\"" THEN MemberAfterKey(s, ParseString(s, i))
        ELSE Failed

\* a parse result that is followed by nothing but white space
WholeText(s, r) == IF r.ok /\ SkipSpace(s, r.i) > Len(s) THEN r ELSE Failed

\* JSON.parse(s): ok is FALSE where it throws a SyntaxError
JsonParse(s) == WholeText(s, ParseValue(s, 1))

(***************************************************************************)
(* safeJsonParse                                                           *)
(***************************************************************************)
\* where the interior of a fence opened at p starts: (?:json)? takes the tag
FenceBodyStart(text, p) == IF HasAt(text, p, FenceJson) THEN p + 7 ELSE p + 3

\* text.match(/```(?:json)?([\s\S]*?)```/): the opening positions that match
FenceOpenings(text) ==
    {p \in 1..Len(text) :
        HasAt(text, p, Fence) /\ IndexOfFrom(text, Fence, FenceBodyStart(text, p)) # 0}

\* markdownMatch[1], the interior of the first fenced block
FenceInterior(text) ==
    LET p == Min(FenceOpenings(text))
        b == FenceBodyStart(text, p)
    IN  SubSeq(text, b, IndexOfFrom(text, Fence, b) - 1)

\* one strategy: JSON.parse of the cleaned candidate, then of its repair
OrRepair(direct, cleaned) ==
    IF direct.ok THEN direct
    ELSE CHOOSE p \in {JsonParse(repaired) :
                         repaired \in {repairTruncatedJson(cleaned)}} : TRUE

ParseOrRepair(candidate) ==
    CHOOSE r \in {OrRepair(JsonParse(cleaned), cleaned) :
                    cleaned \in {cleanJsonString(candidate)}} : TRUE

\* the candidate of strategy 2, <<>> when the text has no "{" and no "["
BraceCandidate(text) ==
    LET firstOpenBrace == indexOf(text, <<"{">>)
        firstOpenBracket == indexOf(text, <<"[">>)
        braceFirst == /\ firstOpenBrace # 0
                      /\ (firstOpenBracket = 0 \/ firstOpenBrace < firstOpenBracket)
        startIdx == IF braceFirst THEN firstOpenBrace ELSE firstOpenBracket
        endIdx == IF braceFirst THEN lastIndexOf(text, <<"}">>)
                  ELSE lastIndexOf(text, <<"]">>)
        actualEndIdx == IF endIdx # 0 /\ endIdx > startIdx THEN endIdx ELSE Len(text)
    IN  IF startIdx = 0 THEN <<>> ELSE SubSeq(text, startIdx, actualEndIdx)

\* the strategies of lines 147-204 in order: <<which one parsed, its value>>,
\* strategy 0 when none did
Strategy(n, r) == IF r.ok THEN <<n, r.v>> ELSE <<0, Null>>

\* the first strategy's result if it parsed, else the next one's
OrNext(first, next) == IF first[1] # 0 THEN first ELSE next

\* strategy 2 runs when the text has a "{" or a "["
ParseBraced(candidate) == IF candidate # <<>> THEN ParseOrRepair(candidate) ELSE Failed

\* the strategies with the brace candidate tried before the fenced block
ExtractJsonBraceFirst(text) ==
    OrNext(Strategy(2, ParseBraced(BraceCandidate(text))),
           OrNext(Strategy(1, IF FenceOpenings(text) # {}
                              THEN ParseOrRepair(FenceInterior(text)) ELSE Failed),
                  Strategy(3, ParseOrRepair(text))))

ExtractJson(text) ==
    OrNext(Strategy(1, IF FenceOpenings(text) # {}
                       THEN ParseOrRepair(FenceInterior(text)) ELSE Failed),
           OrNext(Strategy(2, ParseBraced(BraceCandidate(text))),
                  Strategy(3, ParseOrRepair(text))))

\* lines 207-208: the text opens with one of the refusal markers
IsRefusal(text) ==
    \E marker \in {<<"i", " ", "a", "m">>, <<"s", "o", "r", "r", "y">>,
                    <<"i", " ", "c", "a", "n", "n", "o", "t">>} :
        startsWith(trim(toLowerCase(text)), marker)

\* line 212: whether safeJsonParse(text) writes "JSON Parse failed for text"
\* to the error log
ParseFailureLogged(text) ==
    Truthy(text) /\ ExtractJson(text.s)[1] = 0 /\ ~IsRefusal(text.s)

\* lines 206-213, found being what the strategies gave: the value returned
\* and whether the failure was logged
Finish(text, found) ==
    [value |-> found[2], logged |-> found[1] = 0 /\ ~IsRefusal(text)]

\* one run of safeJsonParse(text): the value it returns and whether it logs
safeJsonParseRun(text) ==
    IF ~Truthy(text) THEN [value |-> Null, logged |-> FALSE]
    ELSE Finish(text.s, ExtractJson(text.s))

\* text is response.text: a string or undefined
safeJsonParse(text) ==
    IF ~Truthy(text) THEN Null ELSE ExtractJson(text.s)[2]

(***************************************************************************)
(* Property names and string literals of the source                        *)
(***************************************************************************)
K_coordinates == <<"c", "o", "o", "r", "d", "i", "n", "a", "t", "e", "s">>

K_lat == <<"l", "a", "t">>

K_lng == <<"l", "n", "g">>

K_description == <<"d", "e", "s", "c", "r", "i", "p", "t", "i", "o", "n">>

K_funFacts == <<"f", "u", "n", "F", "a", "c", "t", "s">>

K_notable == <<"n", "o", "t", "a", "b", "l", "e">>

K_type == <<"t", "y", "p", "e">>

K_news == <<"n", "e", "w", "s">>

K_suggestedZoom ==
    <<"s", "u", "g", "g", "e", "s", "t", "e", "d", "Z", "o", "o", "m">>

K_locationInfo == <<"l", "o", "c", "a", "t", "i", "o", "n", "I", "n", "f", "o">>

K_places == <<"p", "l", "a", "c", "e", "s">>

K_headline == <<"h", "e", "a", "d", "l", "i", "n", "e">>

K_summary == <<"s", "u", "m", "m", "a", "r", "y">>

K_source == <<"s", "o", "u", "r", "c", "e">>

K_url == <<"u", "r", "l">>

K_title == <<"t", "i", "t", "l", "e">>

K_route == <<"r", "o", "u", "t", "e">>

K_locations == <<"l", "o", "c", "a", "t", "i", "o", "n", "s">>

K_waypoints == <<"w", "a", "y", "p", "o", "i", "n", "t", "s">>

K_name == <<"n", "a", "m", "e">>

K_context == <<"c", "o", "n", "t", "e", "x", "t">>

K_id == <<"i", "d">>

K_routeTitle == <<"r", "o", "u", "t", "e", "T", "i", "t", "l", "e">>

S_UnknownLocation ==
    <<"U", "n", "k", "n", "o", "w", "n", " ", "L", "o", "c", "a", "t", "i", "o", "n">>

S_PointOfInterest ==
    <<"P", "o", "i", "n", "t", " ", "o", "f", " ", "I", "n", "t", "e", "r", "e", "s",
      "t">>

S_InformationUnavailable ==
    <<"I", "n", "f", "o", "r", "m", "a", "t", "i", "o", "n", " ", "u", "n", "a", "v",
      "a", "i", "l", "a", "b", "l", "e", ".">>

S_DescriptionUnavailable ==
    <<"D", "e", "t", "a", "i", "l", "e", "d", " ", "d", "e", "s", "c", "r", "i", "p",
      "t", "i", "o", "n", " ", "u", "n", "a", "v", "a", "i", "l", "a", "b", "l", "e",
      ".">>

S_SystemBusy ==
    <<"S", "y", "s", "t", "e", "m", " ", "B", "u", "s", "y", " ", "(", "Q", "u", "o",
      "t", "a", ")">>

S_ConnectionError ==
    <<"C", "o", "n", "n", "e", "c", "t", "i", "o", "n", " ", "E", "r", "r", "o", "r">>

S_BusyDescription ==
    <<"T", "h", "e", " ", "k", "n", "o", "w", "l", "e", "d", "g", "e", " ", "e", "n",
      "g", "i", "n", "e", " ", "i", "s", " ", "c", "u", "r", "r", "e", "n", "t", "l",
      "y", " ", "e", "x", "p", "e", "r", "i", "e", "n", "c", "i", "n", "g", " ", "h",
      "i", "g", "h", " ", "r", "e", "q", "u", "e", "s", "t", " ", "v", "o", "l", "u",
      "m", "e", ".", " ", "P", "l", "e", "a", "s", "e", " ", "w", "a", "i", "t", " ",
      "a", " ", "f", "e", "w", " ", "m", "o", "m", "e", "n", "t", "s", " ", "a", "n",
      "d", " ", "t", "r", "y", " ", "a", "g", "a", "i", "n", ".">>

S_ErrorDescription ==
    <<"C", "o", "u", "l", "d", " ", "n", "o", "t", " ", "r", "e", "t", "r", "i", "e",
      "v", "e", " ", "i", "n", "f", "o", "r", "m", "a", "t", "i", "o", "n", " ", "a",
      "t", " ", "t", "h", "i", "s", " ", "t", "i", "m", "e", ".">>

S_NewsUpdate == <<"N", "e", "w", "s", " ", "U", "p", "d", "a", "t", "e">>

S_Unknown == <<"U", "n", "k", "n", "o", "w", "n">>

S_NewsUnavailable ==
    <<"N", "e", "w", "s", " ", "u", "n", "a", "v", "a", "i", "l", "a", "b", "l", "e",
      " ", "d", "u", "e", " ", "t", "o", " ", "h", "i", "g", "h", " ", "t", "r", "a",
      "f", "f", "i", "c", ".">>

S_System == <<"S", "y", "s", "t", "e", "m">>

S_Hash == <<"#">>

S_TryAgain ==
    <<"P", "l", "e", "a", "s", "e", " ", "t", "r", "y", " ", "a", "g", "a", "i", "n",
      " ", "i", "n", " ", "a", " ", "f", "e", "w", " ", "m", "o", "m", "e", "n", "t",
      "s", ".">>

S_UnknownWaypoint ==
    <<"U", "n", "k", "n", "o", "w", "n", " ", "W", "a", "y", "p", "o", "i", "n", "t">>

S_http == <<"h", "t", "t", "p">>

S_429 == <<"4", "2", "9">>

S_Quota == <<"Q", "u", "o", "t", "a">>

S_RESOURCE_EXHAUSTED ==
    <<"R", "E", "S", "O", "U", "R", "C", "E", "_", "E", "X", "H", "A", "U", "S", "T",
      "E", "D">>

(***************************************************************************)
(* Thrown values.  A remote failure rejects with any value: undefined, or  *)
(* an object with some of the properties the handlers read.  A property    *)
(* that is absent reads as undefined; status and code 0 stand for absent.  *)
(* message and statusText are absent, a string, or a value that is not a   *)
(* string and has no "includes" method (a number).                         *)
(***************************************************************************)
NoError == [kind |-> "none"]

Absent == [k |-> "absent", s |-> <<>>]

NonString == [k |-> "nonstring", s |-> <<>>]

Text(s) == [k |-> "string", s |-> s]

NoNested == [k |-> "absent", code |-> 0, status |-> <<>>]

Nested(code, status) == [k |-> "object", code |-> code, status |-> status]

ErrorValue(kind, status, code, message, statusText, nested) ==
    [kind |-> kind, status |-> status, code |-> code, message |-> message,
     statusText |-> statusText, error |-> nested]

\* throw undefined
ThrownUndefined == ErrorValue("undefined", 0, 0, Absent, Absent, NoNested)

\* a TypeError raised by the JavaScript engine, with its message
TypeError(message) == ErrorValue("TypeError", 0, 0, Text(message), Absent, NoNested)

M_NotAFunction ==
    <<"i", "n", "c", "l", "u", "d", "e", "s", " ", "i", "s", " ", "n", "o", "t", " ",
      "a", " ", "f", "u", "n", "c", "t", "i", "o", "n">>

M_CannotRead ==
    <<"C", "a", "n", "n", "o", "t", " ", "r", "e", "a", "d", " ", "p", "r", "o", "p",
      "e", "r", "t", "i", "e", "s", " ", "o", "f", " ", "n", "u", "l", "l">>

M_CannotCreate ==
    <<"C", "a", "n", "n", "o", "t", " ", "c", "r", "e", "a", "t", "e", " ", "p", "r",
      "o", "p", "e", "r", "t", "y", " ", "o", "n", " ">>

M_timeout == <<"t", "i", "m", "e", "o", "u", "t">>

M_QuotaExceeded == S_Quota \o <<" ", "e", "x", "c", "e", "e", "d", "e", "d">>

M_Got429 == <<"g", "o", "t", " ">> \o S_429

\* the values of status, code, message, statusText and error a remote failure carries
StatusValues == {0, 429, 500}

CodeValues == {0, 429}

MessageValues ==
    {Absent, NonString, Text(<<>>), Text(M_timeout), Text(M_QuotaExceeded),
     Text(M_Got429), Text(S_RESOURCE_EXHAUSTED)}

StatusTextValues == {Absent, Text(S_RESOURCE_EXHAUSTED)}

NestedValues ==
    {NoNested, Nested(429, <<>>), Nested(0, S_RESOURCE_EXHAUSTED), Nested(500, M_timeout)}

RemoteErrors ==
    {ThrownUndefined} \cup
    {ErrorValue("remote", st, co, me, tx, ne) :
        st \in StatusValues, co \in CodeValues, me \in MessageValues,
        tx \in StatusTextValues, ne \in NestedValues}

(***************************************************************************)
(* A condition of a || chain evaluates to true ("T"), to something falsy   *)
(* ("F"), or throws ("X").  The chain stops at its first T or X.           *)
(***************************************************************************)
\* error?.message?.includes(needle): undefined when the property is absent, a
\* TypeError when it is there and is no string
OptionalIncludes(property, needle) ==
    IF property.k = "absent" THEN "F"
    ELSE IF property.k = "nonstring" THEN "X"
    ELSE IF includes(property.s, needle) THEN "T" ELSE "F"

Equals429(n) == IF n = 429 THEN "T" ELSE "F"

\* (error?.error && error.error.code === 429)
NestedCode429(error) ==
    IF error.error.k = "object" /\ error.error.code = 429 THEN "T" ELSE "F"

\* (error?.error && error.error.status === 'RESOURCE_EXHAUSTED')
NestedStatusExhausted(error) ==
    IF error.error.k = "object" /\ error.error.status = S_RESOURCE_EXHAUSTED
    THEN "T" ELSE "F"

\* a || b || ... evaluated left to right
OrChain(conditions) ==
    LET decisive == {i \in 1..Len(conditions) : conditions[i] # "F"}
    IN  IF decisive = {} THEN "F" ELSE conditions[Min(decisive)]

\* lines 21-29 of generateContentWithRetry
isQuotaError(error) ==
    OrChain(<<Equals429(error.status),
              Equals429(error.code),
              OptionalIncludes(error.message, S_429),
              OptionalIncludes(error.message, S_Quota),
              OptionalIncludes(error.message, S_RESOURCE_EXHAUSTED),
              OptionalIncludes(error.statusText, S_RESOURCE_EXHAUSTED),
              NestedCode429(error),
              NestedStatusExhausted(error)>>)

\* lines 285 and 419: the catch handlers of fetchLiveNews and getInfoFromCoordinates
isQuota(error) ==
    OrChain(<<OptionalIncludes(error.message, S_429),
              OptionalIncludes(error.message, S_Quota),
              NestedCode429(error)>>)

(***************************************************************************)
(* generateContentWithRetry                                                *)
(***************************************************************************)
\* the default of the parameter "retries"
DefaultRetries == 3

BaseDelayMs == 4000

DelaySteps == 4

\* a backoff that shrinks as the budget is used up
delayMsReversed(r) == BaseDelayMs * r

\* a backoff that does not grow
delayMsFlat(r) == BaseDelayMs

\* line 33
delayMs(r) == BaseDelayMs * (DelaySteps - r)

\* a retry test that forgets the budget
ShouldRetryUnbounded(error, r) == isQuotaError(error) = "T"

\* a retry test that stops one retry early
ShouldRetryAboveOne(error, r) == isQuotaError(error) = "T" /\ r > 1

\* line 31
ShouldRetry(error, r) == isQuotaError(error) = "T" /\ r > 0

\* what the catch block of the invoker throws for a remote failure it does not retry
Rethrown(error) ==
    IF isQuotaError(error) = "X" THEN TypeError(M_NotAFunction) ELSE error

(***************************************************************************)
(* The orchestrators.  The outcome of a block of code is a completion: it  *)
(* returns a value or throws an error.                                     *)
(***************************************************************************)
Return(v) == [threw |-> FALSE, value |-> v, error |-> NoError]

Throw(e) == [threw |-> TRUE, value |-> Undefined, error |-> e]

DigitChar(d) == CHOOSE c \in Digits : DigitValue(c) = d

RECURSIVE DigitsOf(_)
DigitsOf(n) ==
    IF n < 10 THEN <<DigitChar(n)>> ELSE Append(DigitsOf(n \div 10), DigitChar(n % 10))

\* String(v) of a primitive
Printed(v) ==
    CASE v.t = "string" -> v.s
      [] v.t = "boolean" -> IF v.b THEN <<"t", "r", "u", "e">> ELSE <<"f", "a", "l", "s", "e">>
      [] v.t = "number" -> (IF v.neg THEN <<"-">> ELSE <<>>) \o DigitsOf(v.int)
                             \o (IF v.frac = <<>> THEN <<>> ELSE <<".">> \o v.frac)

\* the TypeError of an assignment to a property of a primitive in strict code;
\* whether its message quotes the primitive depends on the engine
CannotCreateProperty(v, quoting) ==
    TypeError(IF quoting THEN M_CannotCreate \o Printed(v) ELSE M_CannotCreate)

\* { lat, lng }
Coordinates(la, ln) == Obj(WithKey(WithKey(NoProps, K_lat, Num(la)), K_lng, Num(ln)))

\* a backfill of the absent fields only: a null field is left as it is
BackfillAbsent(data, k, fallback) ==
    IF Get(data, k) # Undefined THEN data ELSE Set(data, k, fallback)

\* if (!data.k) data.k = fallback
Backfill(data, k, fallback) ==
    IF Truthy(Get(data, k)) THEN data ELSE Set(data, k, fallback)

\* lines 395-403
UnknownLocation(la, ln) ==
    Obj([k \in {K_name, K_type, K_description, K_coordinates, K_funFacts, K_news,
                K_notable} |->
           CASE k = K_name -> Str(S_UnknownLocation)
             [] k = K_type -> Str(S_PointOfInterest)
             [] k = K_description -> Str(S_InformationUnavailable)
             [] k = K_coordinates -> Coordinates(la, ln)
             [] OTHER -> Arr(<<>>)])

\* line 406
CoordinatesUnusable(data) ==
    \/ ~Truthy(Get(data, K_coordinates))
    \/ Get(Get(data, K_coordinates), K_lat).t # "number"

\* lines 406-408
WithInputCoordinates(data, la, ln) ==
    IF CoordinatesUnusable(data) THEN Set(data, K_coordinates, Coordinates(la, ln))
    ELSE data

\* lines 343-347 and 410-414
FillDefaults(data) ==
    Set(Backfill(Backfill(Backfill(Backfill(data,
            K_description, Str(S_DescriptionUnavailable)),
            K_funFacts, Arr(<<>>)),
            K_notable, Arr(<<>>)),
            K_type, Str(S_PointOfInterest)),
        K_news, Arr(<<>>))

\* lines 406-416, on the data of line 391 or the record of lines 395-403
getInfoFromCoordinatesFill(data, la, ln, quoting) ==
    IF IsPrimitive(data) THEN Throw(CannotCreateProperty(data, quoting))
    ELSE Return(FillDefaults(WithInputCoordinates(data, la, ln)))

\* lines 391-416: the try block of getInfoFromCoordinates after the await, parsed
\* being safeJsonParse(response.text)
getInfoFromCoordinatesBody(parsed, la, ln, quoting) ==
    IF ~Truthy(parsed)
    THEN getInfoFromCoordinatesFill(UnknownLocation(la, ln), la, ln, quoting)
    ELSE getInfoFromCoordinatesFill(parsed, la, ln, quoting)

\* a fallback record that does not carry the input coordinates
FallbackLocationAtOrigin(quota, la, ln) ==
    Obj([k \in {K_name, K_type, K_description, K_coordinates, K_funFacts, K_news,
                K_notable} |->
           CASE k = K_name -> Str(IF quota THEN S_SystemBusy ELSE S_ConnectionError)
             [] k = K_type -> Str(S_PointOfInterest)
             [] k = K_description ->
                    Str(IF quota THEN S_BusyDescription ELSE S_ErrorDescription)
             [] k = K_coordinates -> Coordinates(0, 0)
             [] OTHER -> Arr(<<>>)])

\* lines 421-431
FallbackLocation(quota, la, ln) ==
    Obj([k \in {K_name, K_type, K_description, K_coordinates, K_funFacts, K_news,
                K_notable} |->
           CASE k = K_name -> Str(IF quota THEN S_SystemBusy ELSE S_ConnectionError)
             [] k = K_type -> Str(S_PointOfInterest)
             [] k = K_description ->
                    Str(IF quota THEN S_BusyDescription ELSE S_ErrorDescription)
             [] k = K_coordinates -> Coordinates(la, ln)
             [] OTHER -> Arr(<<>>)])

\* lines 418-432: the catch block of getInfoFromCoordinates
getInfoFromCoordinatesCatch(error, la, ln) ==
    CASE isQuota(error) = "X" -> Throw(TypeError(M_NotAFunction))
      [] OTHER -> Return(FallbackLocation(isQuota(error) = "T", la, ln))

\* a result that carries the model's zoom as it is, without the default
ResolutionWithoutDefault(data) ==
    Obj(WithKey(WithKey(NoProps, K_locationInfo, data),
                K_suggestedZoom, Get(data, K_suggestedZoom)))

\* lines 349-352: { locationInfo: data, suggestedZoom: data.suggestedZoom || 5 }
Resolution(data) ==
    Obj(WithKey(WithKey(NoProps, K_locationInfo, data),
                K_suggestedZoom, OrElse(Get(data, K_suggestedZoom), Num(5))))

\* lines 335-352: the try block of resolveLocationQuery after the await, data
\* being safeJsonParse(response.text)
resolveLocationQueryBody(data, quoting) ==
    IF ~Truthy(data) THEN Return(Null)
    ELSE IF IsPrimitive(data) THEN Throw(CannotCreateProperty(data, quoting))
    ELSE Return(Resolution(FillDefaults(data)))

\* lines 354-357
resolveLocationQueryCatch(error) == Return(Null)

\* lines 452-455: the try block of getNearbyPlaces after the await, data being
\* safeJsonParse(response.text)
getNearbyPlacesBody(data) ==
    IF IsArray(data) THEN Return(data)
    ELSE IF Truthy(data) /\ Truthy(Get(data, K_places)) /\ IsArray(Get(data, K_places))
         THEN Return(Get(data, K_places))
    ELSE Return(Arr(<<>>))

\* lines 457-459
getNearbyPlacesCatch(error) == Return(Arr(<<>>))

\* the items of lines 264-269
NewsItems(data) ==
    IF IsArray(data) THEN data.a
    ELSE IF Truthy(data) /\ Truthy(Get(data, K_news)) /\ IsArray(Get(data, K_news))
         THEN Get(data, K_news).a
    ELSE <<>>

\* lines 271-276: the object the map callback builds from item n
NewsItem(n) ==
    Obj([k \in {K_headline, K_summary, K_source, K_url} |->
           CASE k = K_headline -> OrElse(Get(n, K_headline), Str(S_NewsUpdate))
             [] k = K_summary -> OrElse(Get(n, K_summary), Str(<<>>))
             [] k = K_source -> OrElse(Get(n, K_source), Str(S_Unknown))
             [] k = K_url -> OrElse(Get(n, K_url), Str(<<>>))])

\* u.length < 10 (a "length" that is neither absent nor a number is not modelled)
LengthBelowTen(u) ==
    CASE u.t = "string" -> Len(u.s) < 10
      [] u.t = "array" -> Len(u.a) < 10
      [] u.t = "object" -> LET n == Get(u, <<"l", "e", "n", "g", "t", "h">>)
                           IN  n.t = "number" /\ (n.neg \/ n.int < 10)
      [] OTHER -> FALSE

\* u.includes('...') of a string or an array
IncludesEllipsis(u) ==
    IF u.t = "string" THEN includes(u.s, Ellipsis)
    ELSE \E i \in 1..Len(u.a) : u.a[i] = Str(Ellipsis)

\* lines 277-281, the filter callback on the url u of an item: the item is
\* kept, dropped, or the callback throws a TypeError
UrlVerdict(u) ==
    IF ~Truthy(u) THEN "drop"
    ELSE IF LengthBelowTen(u) THEN "drop"
    ELSE IF u.t \notin {"string", "array"} THEN "throw"
    ELSE IF IncludesEllipsis(u) THEN "drop"
    ELSE IF u.t = "array" THEN "throw"
    ELSE IF ~startsWith(u.s, S_http) THEN "drop"
    ELSE "keep"

\* lines 277-281: mapped.filter(...), verdict[i] being the callback's on mapped[i]
FilterNews(mapped, verdict) ==
    IF \E i \in DOMAIN mapped : verdict[i] = "throw"
    THEN Throw(TypeError(M_NotAFunction))
    ELSE Return(Arr(KeepIndices(mapped, {i \in DOMAIN mapped : verdict[i] = "keep"})))

\* lines 271-281: items.map(...).filter(...)
MapAndFilterNews(items) ==
    IF \E i \in 1..Len(items) : IsNullish(items[i])
    THEN Throw(TypeError(M_CannotRead))
    ELSE FilterNews([i \in 1..Len(items) |-> NewsItem(items[i])],
                    [i \in 1..Len(items) |-> UrlVerdict(Get(NewsItem(items[i]), K_url))])

\* lines 261-282: the try block of fetchLiveNews after the await, data being
\* safeJsonParse(response.text)
fetchLiveNewsBody(data) == MapAndFilterNews(NewsItems(data))

\* lines 288-293
NewsUnavailable ==
    Arr(<<Obj([k \in {K_headline, K_source, K_url, K_summary} |->
                 CASE k = K_headline -> Str(S_NewsUnavailable)
                   [] k = K_source -> Str(S_System)
                   [] k = K_url -> Str(S_Hash)
                   [] k = K_summary -> Str(S_TryAgain)])>>)

\* lines 284-297: the catch block of fetchLiveNews
fetchLiveNewsCatch(error) ==
    CASE isQuota(error) = "X" -> Throw(TypeError(M_NotAFunction))
      [] isQuota(error) = "T" -> Return(NewsUnavailable)
      [] OTHER -> Return(Arr(<<>>))

\* Date.now() as text: the clock reading, which only the waypoint ids hold
DateNow == <<"D", "a", "t", "e", ".", "n", "o", "w">>

\* data && typeof data === 'object'
IsObjectLike(data) == Truthy(data) /\ data.t \in {"object", "array"}

\* data.k && Array.isArray(data.k)
HasList(data, k) == Truthy(Get(data, k)) /\ IsArray(Get(data, k))

\* the items of lines 507-516
RouteItems(data) ==
    IF IsObjectLike(data)
    THEN IF HasList(data, K_route) THEN Get(data, K_route).a
         ELSE IF HasList(data, K_locations) THEN Get(data, K_locations).a
         ELSE IF HasList(data, K_waypoints) THEN Get(data, K_waypoints).a
         ELSE IF IsArray(data) THEN data.a
         ELSE <<>>
    ELSE IF IsArray(data) THEN data.a
    ELSE <<>>

\* line 508
RouteTitle(data) ==
    IF IsObjectLike(data) /\ Truthy(Get(data, K_title)) THEN Get(data, K_title)
    ELSE Undefined

\* lines 518-525: the waypoint the map callback builds from item at index i
WaypointOf(item, i, title) ==
    Obj([k \in {K_id, K_name, K_lat, K_lng, K_context, K_routeTitle} |->
           CASE k = K_id -> Str(<<"w", "p", "-">> \o DigitsOf(i) \o <<"-">> \o DateNow)
             [] k = K_name -> OrElse(Get(item, K_name), Str(S_UnknownWaypoint))
             [] k = K_lat -> OrElse(Get(item, K_lat), Num(0))
             [] k = K_lng -> OrElse(Get(item, K_lng), Num(0))
             [] k = K_context -> OrElse(Get(item, K_context), Str(<<>>))
             [] k = K_routeTitle -> title])

\* line 525: w.lat !== 0 || w.lng !== 0
IsResolved(w) == Get(w, K_lat) # Num(0) \/ Get(w, K_lng) # Num(0)

\* line 525: mapped.filter(...)
FilterWaypoints(mapped) ==
    Return(Arr(KeepIndices(mapped, {i \in DOMAIN mapped : IsResolved(mapped[i])})))

\* lines 518-525: items.map(...).filter(...)
MapAndFilterWaypoints(items, title) ==
    IF \E i \in 1..Len(items) : IsNullish(items[i])
    THEN Throw(TypeError(M_CannotRead))
    ELSE FilterWaypoints([i \in 1..Len(items) |-> WaypointOf(items[i], i - 1, title)])

\* lines 501-525: the try block of generateRoute after the await, data being
\* safeJsonParse(response.text)
generateRouteBody(data) == MapAndFilterWaypoints(RouteItems(data), RouteTitle(data))

\* lines 527-530
generateRouteCatch(error) == Return(Arr(<<>>))

(***************************************************************************)
(* The replies of the remote model: response.text is absent or one of      *)
(* these texts.                                                            *)
(***************************************************************************)
\* the empty text
T_empty == <<>>

T_null == <<"n", "u", "l", "l">>

T_zero == <<"0">>

T_false == <<"f", "a", "l", "s", "e">>

T_emptyString == <<"\"", "\"">>

T_true == <<"t", "r", "u", "e">>

T_429 == <<"4", "2", "9">>

T_refusal == <<"S", "o", "r", "r", "y", ",", " ", "n", "o", ".">>

T_emptyObject == <<"{", "}">>

T_otherCoordinates ==
    <<"{", "\"", "c", "o", "o", "r", "d", "i", "n", "a", "t", "e", "s", "\"", ":", "{",
      "\"", "l", "a", "t", "\"", ":", "7", ",", "\"", "l", "n", "g", "\"", ":", "8",
      "}", "}">>

T_textCoordinates ==
    <<"{", "\"", "c", "o", "o", "r", "d", "i", "n", "a", "t", "e", "s", "\"", ":", "{",
      "\"", "l", "a", "t", "\"", ":", "\"", "x", "\"", "}", "}">>

T_listOfNull == <<"[", "n", "u", "l", "l", "]">>

T_listOfNumber == <<"[", "1", "]">>

T_news ==
    <<"[", "{", "\"", "u", "r", "l", "\"", ":", "\"", "h", "t", "t", "p", ":", "/",
      "/", "a", ".", "i", "o", "/", "b", "\"", "}", "]">>

T_places ==
    <<"{", "\"", "p", "l", "a", "c", "e", "s", "\"", ":", "[", "{", "\"", "l", "a",
      "t", "\"", ":", "1", "}", "]", "}">>

T_route ==
    <<"{", "\"", "r", "o", "u", "t", "e", "\"", ":", "[", "{", "\"", "l", "a", "t",
      "\"", ":", "0", ",", "\"", "l", "n", "g", "\"", ":", "0", "}", ",", "{", "\"",
      "l", "a", "t", "\"", ":", "1", "}", "]", "}">>

T_markers ==
    <<"{", "\"", "m", "a", "r", "k", "e", "r", "s", "\"", ":", "[", "{", "\"", "l",
      "a", "t", "\"", ":", "1", "}", "]", "}">>

T_routeWithNull ==
    <<"[", "n", "u", "l", "l", ",", "{", "\"", "l", "a", "t", "\"", ":", "1", "}", "]">>

T_newsTruncated ==
    <<"[", "{", "\"", "u", "r", "l", "\"", ":", "\"", "h", "t", "t", "p", ":", "/",
      "/", "a", ".", "i", "o", "/", "b", ".", ".", ".", "\"", "}", "]">>

T_newsHeadline ==
    <<"[", "{", "\"", "h", "e", "a", "d", "l", "i", "n", "e", "\"", ":", "\"", "H",
      "i", "\"", ",", "\"", "u", "r", "l", "\"", ":", "\"", "h", "t", "t", "p", ":",
      "/", "/", "a", ".", "i", "o", "/", "b", "\"", "}", "]">>

T_space == <<" ">>

T_fence == <<Backtick, Backtick, Backtick>>

T_ellipsis == <<".", ".", ".">>

T_fencedObject ==
    <<Backtick, Backtick, Backtick, "j", "s", "o", "n", "\n", "{", "\"", "a", "\"",
      ":", "[", "1", "]", "}", "\n", Backtick, Backtick, Backtick>>

T_fencedEllipsis ==
    <<Backtick, Backtick, Backtick, "j", "s", "o", "n", "\n", "\"", "a", ".", ".", ".",
      "\"", "\n", Backtick, Backtick, Backtick>>

T_tokyo ==
    <<"{", "\"", "n", "a", "m", "e", "\"", ":", " ", "\"", "T", "o", "k", "y", "o",
      "\"", ",", " ", "\"", "f", "u", "n", "F", "a", "c", "t", "s", "\"", ":", " ",
      "[", "\"", "f", "a", "c", "t", "1", "\"", ",", " ", "\"", "f", "a", "c", "t", "2">>

T_tokyoWhole ==
    <<"{", "\"", "n", "a", "m", "e", "\"", ":", " ", "\"", "T", "o", "k", "y", "o",
      "\"", ",", " ", "\"", "f", "u", "n", "F", "a", "c", "t", "s", "\"", ":", " ",
      "[", "\"", "f", "a", "c", "t", "1", "\"", ",", " ", "\"", "f", "a", "c", "t",
      "2", "\"", "]", "}">>

T_imSorry ==
    <<"I", "'", "m", " ", "s", "o", "r", "r", "y", ",", " ", "I", " ", "c", "a", "n",
      "n", "o", "t", " ", "h", "e", "l", "p", " ", "w", "i", "t", "h", " ", "t", "h",
      "a", "t", " ", "r", "e", "q", "u", "e", "s", "t", ".">>

T_prose == <<"P", "a", "r", "i", "s", ".">>

T_factsNumber ==
    <<"{", "\"", "f", "u", "n", "F", "a", "c", "t", "s", "\"", ":", "5", "}">>

T_factsNull ==
    <<"{", "\"", "f", "u", "n", "F", "a", "c", "t", "s", "\"", ":", "n", "u", "l", "l",
      ",", "\"", "t", "y", "p", "e", "\"", ":", "n", "u", "l", "l", "}">>

T_zoomZero ==
    <<"{", "\"", "s", "u", "g", "g", "e", "s", "t", "e", "d", "Z", "o", "o", "m", "\"",
      ":", "0", "}">>

T_zoomSeven ==
    <<"{", "\"", "s", "u", "g", "g", "e", "s", "t", "e", "d", "Z", "o", "o", "m", "\"",
      ":", "7", "}">>

T_zoomEleven ==
    <<"{", "\"", "s", "u", "g", "g", "e", "s", "t", "e", "d", "Z", "o", "o", "m", "\"",
      ":", "1", "1", "}">>

T_zoomNegative ==
    <<"{", "\"", "s", "u", "g", "g", "e", "s", "t", "e", "d", "Z", "o", "o", "m", "\"",
      ":", "-", "1", "}">>

\* a fenced list after an object outside the fence
T_fenceAmongBraces ==
    <<"{", "}", " ", Backtick, Backtick, Backtick, "[", "1", "]", Backtick, Backtick,
      Backtick>>

\* a fence that holds no JSON, then an object
T_brokenFenceThenObject ==
    <<Backtick, Backtick, Backtick, "x", Backtick, Backtick, Backtick, " ", "{", "\"",
      "a", "\"", ":", "1", "}">>

\* a JSON string that holds a brace
T_quotedBrace == <<"\"", "a", "{", "\"">>

\* coordinates with a numeric lat and a lng that is a text
T_textLng ==
    <<"{", "\"", "c", "o", "o", "r", "d", "i", "n", "a", "t", "e", "s", "\"", ":", "{",
      "\"", "l", "a", "t", "\"", ":", "7", ",", "\"", "l", "n", "g", "\"", ":", "\"",
      "x", "\"", "}", "}">>

ResponseTexts ==
    {Undefined} \cup
    {Str(t) : t \in {T_empty, T_null, T_zero, T_false, T_emptyString, T_true,
                     T_429, T_refusal, T_emptyObject, T_otherCoordinates, T_textCoordinates,
                     T_listOfNull, T_listOfNumber, T_news, T_places, T_route,
                     T_markers, T_routeWithNull, T_newsTruncated, T_newsHeadline,
                     T_space, T_fence, T_ellipsis, T_fencedObject, T_fencedEllipsis,
                     T_tokyo, T_imSorry, T_prose, T_factsNumber, T_factsNull,
                     T_zoomZero, T_zoomSeven, T_zoomEleven, T_zoomNegative,
                     T_fenceAmongBraces, T_brokenFenceThenObject, T_quotedBrace,
                     T_textLng}}

(***************************************************************************)
(* One invocation: an orchestrator, or generateContentWithRetry called     *)
(* directly with a retry budget.                                           *)
(***************************************************************************)
Invoker == "generateContentWithRetry"

CoordinateOrchestrators == {"getInfoFromCoordinates", "getNearbyPlaces"}

Orchestrators ==
    {"fetchLiveNews", "getMoreNews", "resolveLocationQuery", "generateRoute"}
        \cup CoordinateOrchestrators

\* fetchLiveNews(query, exclude) and getMoreNews(locationName, existingHeadlines)
NewsOrchestrators == {"fetchLiveNews", "getMoreNews"}

\* the exclusion lists: none, or the headline of T_newsHeadline
ExcludeLists == {<<>>, <<<<"H", "i">>>>}

\* the largest retry budget of a direct invocation
MaxBudget == 3

\* the input coordinates
Lats == {0, 1}

Lngs == {2}

NoValue == [t |-> "none"]

\* the try block of orchestrator o once the invoker resolved, data being
\* safeJsonParse(response.text)
TryBlock(o, data, la, ln, quoting) ==
    CASE o \in {"fetchLiveNews", "getMoreNews"} -> fetchLiveNewsBody(data)
      [] o = "resolveLocationQuery" -> resolveLocationQueryBody(data, quoting)
      [] o = "getInfoFromCoordinates" -> getInfoFromCoordinatesBody(data, la, ln, quoting)
      [] o = "getNearbyPlaces" -> getNearbyPlacesBody(data)
      [] o = "generateRoute" -> generateRouteBody(data)

\* the catch block of orchestrator o
CatchBlock(o, error, la, ln) ==
    CASE o \in {"fetchLiveNews", "getMoreNews"} -> fetchLiveNewsCatch(error)
      [] o = "resolveLocationQuery" -> resolveLocationQueryCatch(error)
      [] o = "getInfoFromCoordinates" -> getInfoFromCoordinatesCatch(error, la, ln)
      [] o = "getNearbyPlaces" -> getNearbyPlacesCatch(error)
      [] o = "generateRoute" -> generateRouteCatch(error)

\* try { ... } catch (error) { ... } around the code after the await
Caught(o, body, la, ln) ==
    IF body.threw THEN CatchBlock(o, body.error, la, ln) ELSE body

TryCatch(o, text, la, ln, quoting) ==
    Caught(o, TryBlock(o, safeJsonParse(text), la, ln, quoting), la, ln)

\* the invocations of generateContentWithRetry that run side by side
Ids == {1, 2}

\* an invocation that has not been called yet.  Everything an invocation holds is
\* a parameter or a local of its own call (line 16): the budget it was called
\* with, the retries left, and, for the properties, the calls it has made, the
\* sleeps it has taken and the outcomes of its own remote calls so far
NotStarted ==
    [pc |-> "idle", budget |-> 0, retries |-> 0, calls |-> 0, sleeps |-> <<>>,
     history |-> <<>>]

\* line 18: the invocation called with budget n makes its first remote call
Started(n) ==
    [pc |-> "calling", budget |-> n, retries |-> n, calls |-> 1, sleeps |-> <<>>,
     history |-> <<>>]

\* the outcomes of a remote call, and the timer of line 35
Resolved == [kind |-> "resolved"]

TimerFired == [kind |-> "timer"]

\* lines 18-39: what the outcome of its own remote call, or its own timer, does
\* to an invocation
InvokerStep(inv, event) ==
    [inv EXCEPT
        !.history = Append(@, event),
        !.pc = CASE event = Resolved -> "resolved"
                 [] event = TimerFired -> "calling"
                 [] OTHER -> IF ShouldRetry(event, inv.retries)
                             THEN "sleeping" ELSE "rejected",
        !.retries = IF event = TimerFired THEN @ - 1 ELSE @,
        !.calls = IF event = TimerFired THEN @ + 1 ELSE @,
        !.sleeps = IF event \notin {Resolved, TimerFired} /\ ShouldRetry(event, inv.retries)
                   THEN Append(@, delayMs(inv.retries)) ELSE @]

\* an event that reaches invocation i while others are in flight and takes one
\* retry from each of them as well
DeliverShared(all, i, event) ==
    [j \in DOMAIN all |->
        IF j = i THEN InvokerStep(all[j], event)
        ELSE [all[j] EXCEPT !.retries = IF event = TimerFired THEN @ - 1 ELSE @]]

\* an event reaches invocation i: retries is a parameter of the call, so nothing
\* of another invocation is read or written
Deliver(all, i, event) == [all EXCEPT ![i] = InvokerStep(all[i], event)]

\* no candidate has been handed to repairTruncatedJson yet
NotRepaired == [called |-> FALSE, jsonStr |-> <<>>, returned |-> <<>>]

(***************************************************************************)
(* The App component (App.tsx).  Its state is the React state the handlers  *)
(* below read or write about the shown location and the route; the state    *)
(* that only drives the display (isLoading, markers, the camera, ...) is    *)
(* left out.  A handler that awaits leaves a continuation in "pending"; the *)
(* orchestrators are taken to settle with a value.                          *)
(***************************************************************************)
\* locationInfo === null
NoInfo == [present |-> FALSE, name |-> "", news |-> <<>>, request |-> 0]

\* a LocationInfo called name without news; request tells which location
\* request it was made for
Info(name, request) == [present |-> TRUE, name |-> name, news |-> <<>>, request |-> request]

\* activeRouteId === null
NoRoute == "none"

\* the waypoints of the routes
W1 == [id |-> "w1", name |-> "A"]

W2 == [id |-> "w2", name |-> "B"]

Routes == {<<>>, <<W1>>, <<W1, W2>>}

\* a FavoriteLocation of type 'route'
RouteFavorite(id, waypoints) == [id |-> id, type |-> "route", waypoints |-> waypoints]

\* lines 160-432: the default routes, of which one is kept
DefaultFavorites == <<RouteFavorite("f1", <<W1, W2>>)>>

\* lines 114-136: the state after construction; pending holds the handlers
\* that wait at an await, requests counts the location requests issued, and
\* produced records the requests that a record came back for
Constructed ==
    [mounted |-> FALSE,
     locationInfo |-> NoInfo,
     favorites |-> <<>>,
     activeRouteId |-> NoRoute,
     routeWaypoints |-> <<>>,
     currentWaypointIndex |-> -1,
     pending |-> {},
     requests |-> 0,
     produced |-> {},
     events |-> 0]

\* lines 441-445: the effect that clears activeRouteId when the route is empty
SyncActiveRoute(a) ==
    IF a.routeWaypoints = <<>> /\ a.activeRouteId # NoRoute
    THEN [a EXCEPT !.activeRouteId = NoRoute] ELSE a

\* lines 451-503, up to the await of line 473
loadWaypointData(a, wp) ==
    [a EXCEPT !.locationInfo = NoInfo,
              !.requests = @ + 1,
              !.pending = @ \cup {[k |-> "waypoint", request |-> a.requests + 1, name |-> ""]}]

\* lines 505-555: what handleGlobeClick does to the location and the route
handleGlobeClick(a) ==
    [a EXCEPT !.locationInfo = NoInfo,
              !.routeWaypoints = IF a.activeRouteId = NoRoute THEN <<>> ELSE @,
              !.currentWaypointIndex = -1]

\* routeWaypoints.findIndex(w => w.id === id), -1 when there is none
FindIndex(waypoints, id) ==
    IF \E i \in 1..Len(waypoints) : waypoints[i].id = id
    THEN Min({i \in 1..Len(waypoints) : waypoints[i].id = id}) - 1
    ELSE -1

\* lines 566-574: the marker is a route favorite
ClickRouteFavorite(a, fav) ==
    IF Len(fav.waypoints) > 0
    THEN loadWaypointData([a EXCEPT !.routeWaypoints = fav.waypoints,
                                    !.activeRouteId = fav.id,
                                    !.currentWaypointIndex = 0],
                          fav.waypoints[1])
    ELSE [a EXCEPT !.routeWaypoints = fav.waypoints,
                   !.activeRouteId = fav.id,
                   !.currentWaypointIndex = 0]

\* lines 587-619, up to the await: the placeholder record and the request
ClickPlace(a, marker) ==
    [a EXCEPT !.locationInfo = Info(marker.name, a.requests + 1),
              !.requests = @ + 1,
              !.pending = @ \cup {[k |-> "marker", request |-> a.requests + 1, name |-> ""]}]

\* lines 588-594: a marker that is no route point clears or deselects the route
LeaveRoute(a) ==
    [a EXCEPT !.routeWaypoints = IF a.activeRouteId = NoRoute THEN <<>> ELSE @,
              !.currentWaypointIndex = -1]

\* lines 558-634, up to the await of line 621
handleMarkerClick(a, marker) ==
    IF marker.type = "route" THEN ClickRouteFavorite(a, marker)
    ELSE IF marker.type = "waypoint"
         THEN IF FindIndex(a.routeWaypoints, marker.id) # -1
              THEN loadWaypointData(
                       [a EXCEPT !.currentWaypointIndex =
                                     FindIndex(a.routeWaypoints, marker.id)],
                       marker)
              ELSE ClickPlace(a, marker)
    ELSE ClickPlace(LeaveRoute(a), marker)

\* lines 636-653, up to the await
handleSearch(a) ==
    [a EXCEPT !.locationInfo = NoInfo,
              !.routeWaypoints = <<>>,
              !.activeRouteId = NoRoute,
              !.currentWaypointIndex = -1,
              !.requests = @ + 1,
              !.pending = @ \cup {[k |-> "search", request |-> a.requests + 1, name |-> ""]}]

\* lines 700-711, up to the await
handleTraceRoute(a) ==
    [a EXCEPT !.locationInfo = NoInfo,
              !.activeRouteId = NoRoute,
              !.pending = @ \cup {[k |-> "route", request |-> 0, name |-> ""]}]

\* lines 752-758
handleClosePanel(a) == [a EXCEPT !.locationInfo = NoInfo]

\* lines 760-786: the id of the favorite that is the route on show, "none"
\* when there is none (location favorites are not modelled)
CurrentFavorite(a) ==
    LET matches ==
            {i \in 1..Len(a.favorites) :
                IF a.activeRouteId # NoRoute
                THEN a.favorites[i].id = a.activeRouteId
                ELSE /\ Len(a.favorites[i].waypoints) = Len(a.routeWaypoints)
                     /\ a.favorites[i].waypoints[1].name = a.routeWaypoints[1].name}
    IN  IF Len(a.routeWaypoints) > 0 /\ a.currentWaypointIndex # -1 /\ matches # {}
        THEN a.favorites[Min(matches)].id
        ELSE "none"

\* prev.map(f => f.id === updatedFav.id ? updatedFav : f)
ReplaceFavorite(favorites, updatedFav) ==
    [i \in 1..Len(favorites) |->
        IF favorites[i].id = updatedFav.id THEN updatedFav ELSE favorites[i]]

\* lines 823-835
handleUpdateFavorite(a, updatedFav) ==
    [a EXCEPT !.favorites = ReplaceFavorite(@, updatedFav),
              !.routeWaypoints =
                  IF a.activeRouteId = updatedFav.id THEN updatedFav.waypoints ELSE @,
              !.currentWaypointIndex =
                  IF a.activeRouteId # updatedFav.id THEN @
                  ELSE IF Len(updatedFav.waypoints) = 0 THEN -1
                  ELSE IF @ >= Len(updatedFav.waypoints) THEN Len(updatedFav.waypoints) - 1
                  ELSE @]

\* lines 837-853
handleRemoveFavorite(a, targetId) ==
    [a EXCEPT !.favorites = SelectSeq(@, LAMBDA f : f.id # targetId),
              !.activeRouteId = IF targetId = a.activeRouteId THEN NoRoute ELSE @,
              !.routeWaypoints = IF targetId = a.activeRouteId THEN <<>> ELSE @,
              !.locationInfo = IF targetId = CurrentFavorite(a) THEN NoInfo ELSE @]

\* lines 855-885, for a route favorite
handleToggleFavoriteVisibility(a, fav) ==
    IF a.activeRouteId = fav.id
    THEN [a EXCEPT !.activeRouteId = NoRoute,
                   !.routeWaypoints = <<>>,
                   !.currentWaypointIndex = -1]
    ELSE ClickRouteFavorite(a, fav)

\* lines 887-909, for a route favorite
handleFavoriteFlyTo(a, fav) ==
    IF a.activeRouteId # fav.id THEN handleToggleFavoriteVisibility(a, fav)
    ELSE IF Len(fav.waypoints) > 0
         THEN loadWaypointData([a EXCEPT !.currentWaypointIndex = 0], fav.waypoints[1])
         ELSE [a EXCEPT !.currentWaypointIndex = 0]

\* lines 911-915, up to the await
handleLoadMoreNews(a) ==
    [a EXCEPT !.pending = @ \cup {[k |-> "more", request |-> 0, name |-> a.locationInfo.name]}]

\* a news item: the query it was fetched for and its headline
NewsItemFor(query, headline) == [query |-> query, headline |-> headline]

\* lines 488-492, 622-626, 667-685: the record is shown and its news asked for
ShowAndFetchNews(a, p, name) ==
    [a EXCEPT !.locationInfo = Info(name, p.request),
              !.produced = @ \cup {p.request},
              !.pending = (@ \ {p}) \cup
                  IF name # "" THEN {[k |-> "news", request |-> p.request, name |-> name]}
                  ELSE {}]

\* lines 494-497, 628-631, 687-690: prev => ...
WithNews(prev, name, news) ==
    IF ~prev.present \/ prev.name # name THEN prev ELSE [prev EXCEPT !.news = news]

\* lines 917-924: prev => ...
WithMoreNews(prev, name, newNews) ==
    IF ~prev.present THEN prev
    ELSE [prev EXCEPT !.news = @ \o SelectSeq(newNews, LAMBDA n :
                                      \A i \in 1..Len(prev.news) :
                                          prev.news[i].headline # n.headline)]

Init ==
    /\ inflight = [i \in Ids |-> NotStarted]
    /\ repair = NotRepaired
    /\ app = Constructed
    /\ op = "none"

    /\ lat = 0
    /\ lng = 0
    /\ exclude = <<>>
    /\ budget = 0
    /\ retries = 0
    /\ pc = "idle"
    /\ calls = 0
    /\ failures = 0
    /\ sleeps = <<>>
    /\ lastError = NoError
    /\ thrown = NoError
    /\ response = NoValue
    /\ parsedData = NoValue
    /\ parseFailureLogged = FALSE
    /\ outcome = "pending"
    /\ result = NoValue

\* a caller invokes o; the first remote call is made at once (line 18).  The
\* exclusion list of fetchLiveNews goes into the prompt only (lines 218-220).
Invoke(o, la, ln, ex, n) ==
    /\ pc = "idle"
    /\ op' = o
    /\ lat' = la
    /\ lng' = ln
    /\ exclude' = ex
    /\ budget' = n
    /\ retries' = n
    /\ calls' = 1
    /\ pc' = "calling"
    /\ UNCHANGED <<failures, sleeps, lastError, thrown, response, parsedData,
                   parseFailureLogged, outcome, result>>
    /\ UNCHANGED aside

\* line 18: ai.models.generateContent resolves; so does every pending recursive call
RemoteResolves(text) ==
    /\ pc = "calling"
    /\ response' = text
    /\ pc' = "resolved"
    /\ UNCHANGED <<op, lat, lng, exclude, budget, retries, calls, failures, sleeps,
                   lastError, thrown, parsedData, parseFailureLogged, outcome, result>>
    /\ UNCHANGED aside

\* lines 19-39: ai.models.generateContent rejects with error
RemoteRejects(error) ==
    /\ pc = "calling"
    /\ failures' = failures + 1
    /\ IF ShouldRetry(error, retries)
       THEN /\ sleeps' = Append(sleeps, delayMs(retries))
            /\ pc' = "sleeping"
            /\ UNCHANGED <<lastError, thrown>>
       ELSE /\ lastError' = error
            /\ thrown' = Rethrown(error)
            /\ pc' = "rejected"
            /\ UNCHANGED sleeps
    /\ UNCHANGED <<op, lat, lng, exclude, budget, retries, calls, response, parsedData,
                   parseFailureLogged, outcome, result>>
    /\ UNCHANGED aside

\* lines 35-36: the timer fires and the recursive call makes the next remote call
TimerFires ==
    /\ pc = "sleeping"
    /\ retries' = retries - 1
    /\ calls' = calls + 1
    /\ pc' = "calling"
    /\ UNCHANGED <<op, lat, lng, exclude, budget, failures, sleeps, lastError,
                   thrown, response, parsedData, parseFailureLogged, outcome, result>>
    /\ UNCHANGED aside

\* the orchestrator's promise settles with completion c
Settle(c) ==
    /\ outcome' = IF c.threw THEN "rejected" ELSE "returned"
    /\ result' = c.value
    /\ pc' = "done"
    /\ UNCHANGED <<op, lat, lng, exclude, budget, retries, calls, failures, sleeps,
                   lastError, thrown, response>>
    /\ UNCHANGED aside

\* the orchestrator resumes after its await with the response: it parses the
\* text into its data and runs the rest of its try block, and its catch block if
\* that throws
Resume(quoting) ==
    /\ pc = "resolved"
    /\ op \in Orchestrators
    /\ \E run \in {safeJsonParseRun(response)} :
          /\ parsedData' = run.value
          /\ parseFailureLogged' = run.logged
    /\ Settle(Caught(op, TryBlock(op, parsedData', lat, lng, quoting), lat, lng))

\* the orchestrator's await throws what the invoker rejected with
Catch ==
    /\ pc = "rejected"
    /\ op \in Orchestrators
    /\ UNCHANGED <<parsedData, parseFailureLogged>>
    /\ Settle(CatchBlock(op, thrown, lat, lng))

Next ==
    \/ \E o \in {"resolveLocationQuery", "generateRoute"} :
          Invoke(o, 0, 0, <<>>, DefaultRetries)
    \/ \E o \in NewsOrchestrators, ex \in ExcludeLists :
          Invoke(o, 0, 0, ex, DefaultRetries)
    \/ \E o \in CoordinateOrchestrators, la \in Lats, ln \in Lngs :
          Invoke(o, la, ln, <<>>, DefaultRetries)
    \/ \E n \in 0..MaxBudget : Invoke(Invoker, 0, 0, <<>>, n)
    \/ \E text \in ResponseTexts : RemoteResolves(text)
    \/ \E error \in RemoteErrors : RemoteRejects(error)
    \/ TimerFires
    \/ \E quoting \in BOOLEAN : Resume(quoting)
    \/ Catch

Spec == Init /\ [][Next]_vars

(***************************************************************************)
(* Invocations side by side.  Each await of an invocation (its remote call, *)
(* its backoff sleep) lets the steps of the others run in between.          *)
(***************************************************************************)
\* the failures the remote calls of concurrent invocations reject with
ConcurrentErrors ==
    {ErrorValue("remote", 429, 0, Absent, Absent, NoNested),
     ErrorValue("remote", 500, 0, Text(M_timeout), Absent, NoNested)}

\* line 16: an orchestrator, or another caller, calls the invoker
Begin(i, n) ==
    /\ inflight[i].pc = "idle"
    /\ inflight' = [inflight EXCEPT ![i] = Started(n)]
    /\ UNCHANGED <<single, repair, app>>

\* line 18: the remote call of invocation i resolves
ResolvesFor(i) ==
    /\ inflight[i].pc = "calling"
    /\ inflight' = Deliver(inflight, i, Resolved)
    /\ UNCHANGED <<single, repair, app>>

\* lines 19-39: the remote call of invocation i rejects with error
RejectsFor(i, error) ==
    /\ inflight[i].pc = "calling"
    /\ inflight' = Deliver(inflight, i, error)
    /\ UNCHANGED <<single, repair, app>>

\* lines 35-36: the timer of invocation i fires
FiresFor(i) ==
    /\ inflight[i].pc = "sleeping"
    /\ inflight' = Deliver(inflight, i, TimerFired)
    /\ UNCHANGED <<single, repair, app>>

ConcurrentNext ==
    \/ \E i \in Ids, n \in 0..MaxBudget : Begin(i, n)
    \/ \E i \in Ids : ResolvesFor(i)
    \/ \E i \in Ids, error \in ConcurrentErrors : RejectsFor(i, error)
    \/ \E i \in Ids : FiresFor(i)

ConcurrentSpec == Init /\ [][ConcurrentNext]_vars

(***************************************************************************)
(* repairTruncatedJson on its own: it is called once, with any candidate   *)
(* of up to MaxLen characters that matter to it.                           *)
(***************************************************************************)
MaxLen == 3

RepairChars == {"\"", "\\", "{", "}", "[", "]", "a", " "}

Candidates == UNION {[1..n -> RepairChars] : n \in 0..MaxLen}

\* lines 101-141
Repairs(jsonStr) ==
    /\ ~repair.called
    /\ repair' = [called |-> TRUE, jsonStr |-> jsonStr,
                  returned |-> repairTruncatedJson(jsonStr)]
    /\ UNCHANGED <<single, inflight, app>>

RepairNext == \E jsonStr \in Candidates : Repairs(jsonStr)

RepairSpec == Init /\ [][RepairNext]_vars

(***************************************************************************)
(* The App component's steps: the mount effect, the user's events (each a  *)
(* whole handler up to its first await) and the replies of the             *)
(* orchestrators (each the rest of a handler).  The effect of lines        *)
(* 441-445 runs after every one of them.                                   *)
(***************************************************************************)
\* the number of user events of a run
MaxEvents == 3

\* what localStorage may hold on mount: nothing, or one saved route
StoredFavorites == {<<>>, <<RouteFavorite("f1", <<W1>>)>>}

\* the markers of the nearby places
PlaceMarkers ==
    {[id |-> "mA", name |-> "A", type |-> "place"],
     [id |-> "mB", name |-> "B", type |-> "place"]}

\* a route point as the globe hands it to handleMarkerClick
WaypointMarker(w) == [id |-> w.id, name |-> w.name, type |-> "waypoint"]

\* the names a generated record may carry
InfoNames == {"A", "B"}

\* the news a reply may carry for a query
NewsFor(query) == {<<>>, <<NewsItemFor(query, "h1")>>}

\* the news a getMoreNews reply may carry for a query
MoreNewsFor(query) == {<<NewsItemFor(query, "h1")>>, <<NewsItemFor(query, "h2")>>}

\* a render: the new state, after the effect of lines 441-445
Renders(next) ==
    /\ app' = SyncActiveRoute(next)
    /\ UNCHANGED <<single, inflight, repair>>

\* a user event handled by a handler
Handles(next) ==
    /\ app.mounted
    /\ app.events < MaxEvents
    /\ Renders([next EXCEPT !.events = @ + 1])

\* lines 146-433
Mount ==
    /\ ~app.mounted
    /\ \E stored \in StoredFavorites :
          Renders([app EXCEPT !.mounted = TRUE,
                              !.favorites = IF Len(stored) > 0 THEN stored
                                            ELSE DefaultFavorites])

GlobeClick == Handles(handleGlobeClick(app))

PlaceClick == \E marker \in PlaceMarkers : Handles(handleMarkerClick(app, marker))

FavoriteClick ==
    \E i \in 1..Len(app.favorites) : Handles(handleMarkerClick(app, app.favorites[i]))

WaypointClick ==
    \E i \in 1..Len(app.routeWaypoints) :
        Handles(handleMarkerClick(app, WaypointMarker(app.routeWaypoints[i])))

Search == Handles(handleSearch(app))

TraceRoute == Handles(handleTraceRoute(app))

\* lines 1086-1091: the panel offers the route's navigation
RouteNav == Len(app.routeWaypoints) > 0 /\ app.currentWaypointIndex # -1

\* lines 723-729
NextWaypoint ==
    /\ RouteNav
    /\ app.currentWaypointIndex < Len(app.routeWaypoints) - 1
    /\ Handles(loadWaypointData(
                   [app EXCEPT !.currentWaypointIndex = @ + 1],
                   app.routeWaypoints[app.currentWaypointIndex + 2]))

\* lines 731-737
PrevWaypoint ==
    /\ RouteNav
    /\ app.currentWaypointIndex > 0
    /\ Handles(loadWaypointData(
                   [app EXCEPT !.currentWaypointIndex = @ - 1],
                   app.routeWaypoints[app.currentWaypointIndex]))

ClosePanel ==
    /\ app.locationInfo.present
    /\ Handles(handleClosePanel(app))

\* lines 790-821: the route on show is saved as a new favorite
SaveFavorite ==
    /\ CurrentFavorite(app) = "none"
    /\ Len(app.routeWaypoints) > 0
    /\ app.currentWaypointIndex # -1
    /\ \A i \in 1..Len(app.favorites) : app.favorites[i].id # "f2"
    /\ Handles([app EXCEPT !.favorites = Append(@, RouteFavorite("f2", app.routeWaypoints)),
                           !.activeRouteId = "f2"])

\* the route editor of the favorites panel saves a favorite with new waypoints
UpdateFavorite ==
    \E i \in 1..Len(app.favorites), waypoints \in Routes :
        /\ waypoints # app.favorites[i].waypoints
        /\ Handles(handleUpdateFavorite(app, RouteFavorite(app.favorites[i].id, waypoints)))

\* onDelete of the favorites panel
DeleteFavorite ==
    \E i \in 1..Len(app.favorites) : Handles(handleRemoveFavorite(app, app.favorites[i].id))

\* onRemoveFavorite of the info panel: the favorite on show
RemoveCurrentFavorite ==
    /\ CurrentFavorite(app) # "none"
    /\ Handles(handleRemoveFavorite(app, CurrentFavorite(app)))

ToggleFavoriteVisibility ==
    \E i \in 1..Len(app.favorites) :
        Handles(handleToggleFavoriteVisibility(app, app.favorites[i]))

FavoriteFlyTo ==
    \E i \in 1..Len(app.favorites) : Handles(handleFavoriteFlyTo(app, app.favorites[i]))

\* lines 911-915
LoadMoreNews ==
    /\ app.locationInfo.present
    /\ Handles(handleLoadMoreNews(app))

\* getInfoFromCoordinates settles: lines 473-492 and 621-626
InfoReply ==
    \E p \in app.pending, name \in InfoNames :
        /\ p.k \in {"waypoint", "marker"}
        /\ Renders(ShowAndFetchNews(app, p, name))

\* resolveLocationQuery settles: lines 653-696
SearchReply ==
    \E p \in app.pending :
        /\ p.k = "search"
        /\ \/ \E name \in InfoNames : Renders(ShowAndFetchNews(app, p, name))
           \/ Renders([app EXCEPT !.pending = @ \ {p}])

\* fetchLiveNews settles: lines 493-497, 627-631, 686-690
NewsReply ==
    \E p \in app.pending :
        /\ p.k = "news"
        /\ \E news \in NewsFor(p.name) :
              Renders([app EXCEPT !.pending = @ \ {p},
                                  !.locationInfo = WithNews(@, p.name, news)])

\* getMoreNews settles: lines 916-924
MoreNewsReply ==
    \E p \in app.pending :
        /\ p.k = "more"
        /\ \E newNews \in MoreNewsFor(p.name) :
              Renders([app EXCEPT !.pending = @ \ {p},
                                  !.locationInfo = WithMoreNews(@, p.name, newNews)])

\* generateRoute settles: lines 711-720
RouteReply ==
    \E p \in app.pending, waypoints \in Routes :
        /\ p.k = "route"
        /\ IF Len(waypoints) > 0
           THEN Renders(loadWaypointData(
                            [app EXCEPT !.pending = @ \ {p},
                                        !.routeWaypoints = waypoints,
                                        !.currentWaypointIndex = 0],
                            waypoints[1]))
           ELSE Renders([app EXCEPT !.pending = @ \ {p}])

AppNext ==
    \/ Mount
    \/ GlobeClick
    \/ PlaceClick
    \/ FavoriteClick
    \/ WaypointClick
    \/ Search
    \/ TraceRoute
    \/ NextWaypoint
    \/ PrevWaypoint
    \/ ClosePanel
    \/ SaveFavorite
    \/ UpdateFavorite
    \/ DeleteFavorite
    \/ RemoveCurrentFavorite
    \/ ToggleFavoriteVisibility
    \/ FavoriteFlyTo
    \/ LoadMoreNews
    \/ InfoReply
    \/ SearchReply
    \/ NewsReply
    \/ MoreNewsReply
    \/ RouteReply

AppSpec == Init /\ [][AppNext]_vars

(***************************************************************************)
(* Properties of the orchestrators                                         *)
(***************************************************************************)
\* the invoker classified the error it surfaced as rate-limited
RateLimited == lastError # NoError /\ isQuotaError(lastError) = "T"

\* getInfoFromCoordinates has returned a value
LocationReturned == op = "getInfoFromCoordinates" /\ outcome = "returned"

\* the remote call was rejected, or the response text yields no JSON value
FailurePath ==
    \/ lastError # NoError
    \/ response # NoValue /\ (~Truthy(response) \/ ExtractJson(response.s)[1] = 0)

\* C1: no exception propagates out of an orchestrator: whatever the remote
\* call rejects with or responds, the orchestrator's promise never rejects.
C1_NoExceptionEscapes == op \in Orchestrators => outcome # "rejected"

\* C2: getInfoFromCoordinates never returns nil: once it has settled, for
\* every remote outcome, it has returned a value that is a record (neither
\* null, undefined nor a primitive).
C2_NeverNil ==
    (op = "getInfoFromCoordinates" /\ pc = "done")
        => (outcome = "returned" /\ ~IsNullish(result) /\ ~IsPrimitive(result))

\* C3: for every remote response the record getInfoFromCoordinates(lat, lng)
\* returns has coordinates exactly {lat, lng}; the coordinates the model claims
\* are never used.
C3_CoordinatesEqualInput ==
    LocationReturned => Get(result, K_coordinates) = Coordinates(lat, lng)

\* C4: on every failure path of getInfoFromCoordinates(lat, lng) (the remote
\* call was rejected, or the response text yields no JSON value) the record
\* that is returned carries coordinates exactly {lat, lng}.
C4_FallbackCoordinates ==
    (LocationReturned /\ FailurePath)
        => Get(result, K_coordinates) = Coordinates(lat, lng)

\* a fallback record was returned for the second input point after a rejection
C4_Witness ==
    /\ LocationReturned
    /\ lastError # NoError
    /\ lat = 1
    /\ Get(result, K_coordinates) = Coordinates(1, 2)
    /\ Get(result, K_name) \in {Str(S_SystemBusy), Str(S_ConnectionError)}

\* C5: the failure kind getInfoFromCoordinates reports agrees with the
\* invoker's classification: the fallback record is the "System Busy (Quota)"
\* one for every error the invoker classifies as rate-limited, and the
\* "Connection Error" one for every other error.
C5_KindAgreesWithInvoker ==
    (LocationReturned /\ lastError # NoError)
        => Get(result, K_name) =
               Str(IF RateLimited THEN S_SystemBusy ELSE S_ConnectionError)

(***************************************************************************)
(* Properties of generateContentWithRetry.  They are stated of every       *)
(* invocation: an orchestrator's is one with the default budget.           *)
(***************************************************************************)
\* the invoker has rejected with the rate-limited error of its last call
SurfacedRateLimit == pc = "rejected" /\ RateLimited

\* C6 as claimed: an invocation with budget N makes at most N remote calls,
\* and a rate-limited error reaches the caller only once the budget is used up.
C6_AtMostBudgetCalls ==
    /\ budget >= 1 => calls <= budget
    /\ SurfacedRateLimit => (thrown = lastError /\ retries = 0)

\* C6, amended: an invocation with budget N (the number of retries) makes at
\* most N + 1 remote calls.  Every retry uses up one unit of the budget, which
\* never falls below zero, so the invocation cannot retry forever; one sleep
\* separates every two successive calls; and a rate-limited error reaches the
\* caller, as the error the remote call gave, only after all N + 1 calls.
C6_BoundedRetries ==
    op # "none" =>
        /\ retries \in 0..budget
        /\ calls + retries = budget + 1
        /\ Len(sleeps) = IF pc = "sleeping" THEN calls ELSE calls - 1
        /\ SurfacedRateLimit => (calls = budget + 1 /\ thrown = lastError)

\* all four calls of a budget of three failed rate-limited, and the error surfaced
C6_Witness ==
    /\ op = Invoker
    /\ budget = 3
    /\ SurfacedRateLimit
    /\ calls = 4
    /\ failures = 4
    /\ thrown = lastError

\* C7: a non-rate-limited error is never retried: when a remote call fails
\* with an error that carries none of the rate-limit signatures, the invoker
\* sleeps no more, calls no more, and rejects with that same error.
C7_SameErrorNoRetry ==
    [][(pc = "calling" /\ pc' = "rejected" /\ ~RateLimited')
          => (sleeps' = sleeps /\ calls' = calls /\ thrown' = lastError')]_vars

\* C8: when the first two calls fail rate-limited and the third succeeds, an
\* invocation with budget 3 resolves to the third call's result after exactly
\* 3 remote calls and exactly 2 sleeps, the second strictly longer than the first.
C8_TwoFailuresThenSuccess ==
    (budget = 3 /\ failures = 2 /\ pc \in {"resolved", "done"} /\ lastError = NoError)
        => /\ calls = 3
           /\ Len(sleeps) = 2
           /\ sleeps[1] < sleeps[2]
           /\ response \in ResponseTexts

\* a direct invocation with budget 3 resolved on its third call
C8_Witness ==
    /\ op = Invoker
    /\ budget = 3
    /\ failures = 2
    /\ pc = "resolved"
    /\ calls = 3
    /\ sleeps = <<4000, 8000>>

\* C9 as claimed: with budget 1 a rate-limited failure surfaces at once, after
\* exactly one remote call and no sleep.
C9_BudgetOneSurfacesAtOnce ==
    (budget = 1 /\ SurfacedRateLimit) => (calls = 1 /\ sleeps = <<>>)

\* C9, amended: with budget 1 a rate-limited failure is retried once, after one
\* sleep of 12000 ms, and surfaces after the second call; it surfaces at once,
\* after one call and no sleep, with budget 0.
C9_BudgetOneRetriesOnce ==
    /\ (budget = 1 /\ SurfacedRateLimit) => (calls = 2 /\ sleeps = <<12000>>)
    /\ (budget = 0 /\ SurfacedRateLimit) => (calls = 1 /\ sleeps = <<>>)

\* a direct invocation with budget 1 rejected after its second call
C9_Witness ==
    /\ op = Invoker
    /\ budget = 1
    /\ SurfacedRateLimit
    /\ calls = 2
    /\ sleeps = <<12000>>

\* C10: whenever the remote call behind fetchLiveNews ends in a failure the
\* invoker classifies as rate-limited, fetchLiveNews returns the list of the
\* one synthetic "News unavailable" item: no empty list and no exception.
C10_UnavailableItemOnRateLimit ==
    (op = "fetchLiveNews" /\ pc = "done" /\ RateLimited)
        => (outcome = "returned" /\ result = NewsUnavailable)

(***************************************************************************)
(* Properties of the orchestrators' results                                *)
(***************************************************************************)
\* orchestrator o has settled after the remote call resolved
Resumed(o) == op = o /\ pc = "done" /\ response # NoValue

\* the wrapper field the specification names besides "places"
K_markers == <<"m", "a", "r", "k", "e", "r", "s">>

\* the list a reply delivers: bare, or wrapped in "places" or in "markers"
DeliveredPlaces(reply) ==
    IF IsArray(reply) THEN reply
    ELSE IF HasList(reply, K_places) THEN Get(reply, K_places)
    ELSE IF HasList(reply, K_markers) THEN Get(reply, K_markers)
    ELSE Arr(<<>>)

\* C11: getNearbyPlaces accepts all three delivery shapes: it returns the
\* parsed reply when that is a bare list, its "places" field or its "markers"
\* field when that is a list, and the empty list in every other case,
\* failures included.
C11_AcceptsThreeShapes ==
    (op = "getNearbyPlaces" /\ pc = "done")
        => (outcome = "returned" /\ result = DeliveredPlaces(parsedData))


\* the coordinate k of a parsed route item, a missing or falsy one counting as 0
CoordinateOf(item, k) ==
    IF IsNullish(item) THEN Num(0) ELSE OrElse(Get(item, k), Num(0))

\* the <<lat, lng>> pairs of the items that have a non-zero coordinate, in order
ResolvedPairs(items) ==
    LET pairs == [i \in 1..Len(items) |->
                    <<CoordinateOf(items[i], K_lat), CoordinateOf(items[i], K_lng)>>]
    IN  SelectSeq(pairs, LAMBDA p : p # <<Num(0), Num(0)>>)

\* the <<lat, lng>> pairs of returned waypoints
PairsOf(waypoints) ==
    [i \in 1..Len(waypoints) |-> <<Get(waypoints[i], K_lat), Get(waypoints[i], K_lng)>>]

\* C12: generateRoute removes exactly the unresolved waypoints: once the reply
\* has been parsed, the returned waypoints are the parsed items that have a
\* non-zero coordinate (a missing or falsy one counting as 0), all of them, in
\* the order of the parsed list, and none with lat = 0 and lng = 0.
C12_RemovesExactlyUnresolved ==
    Resumed("generateRoute")
        => /\ outcome = "returned"
           /\ IsArray(result)
           /\ PairsOf(result.a) = ResolvedPairs(RouteItems(parsedData))


\* a url that can be followed: a non-empty text that starts with "http" and
\* holds no "..."
IsLinkable(u) ==
    /\ u.t = "string"
    /\ u.s # <<>>
    /\ startsWith(u.s, S_http)
    /\ ~includes(u.s, Ellipsis)

\* the linkable urls among the news items of a reply, as the reply writes them
\* (written being JSON.parse of the reply's own text)
LinkableAsWritten(written) ==
    {u \in {Get(NewsItems(written.v)[i], K_url) : i \in 1..Len(NewsItems(written.v))} :
        IsLinkable(u)}

\* C13: every news item returned after a successful remote call is linkable:
\* when the reply is JSON text, each returned item carries a url that some item
\* of the reply has as written, and that url is non-empty, starts with "http"
\* and holds no "..."; an item whose written url is missing, empty, not
\* http-prefixed or truncated is never returned.
C13_ReturnedNewsLinkableAsWritten ==
    (op \in NewsOrchestrators /\ pc = "done" /\ response.t = "string" /\ outcome = "returned")
        => \A written \in {JsonParse(response.s)} :
              written.ok
                  => \A i \in 1..Len(result.a) :
                        Get(result.a[i], K_url) \in LinkableAsWritten(written)


\* the headlines of the exclusion list, as values
Excluded == {Str(exclude[i]) : i \in 1..Len(exclude)}

\* C14: fetchLiveNews(query, exclude), and getMoreNews through it, never
\* returns an item whose headline equals one of the headlines in exclude,
\* whatever the remote model replies.
C14_NoExcludedHeadline ==
    (op \in NewsOrchestrators /\ pc = "done" /\ outcome = "returned")
        => \A i \in 1..Len(result.a) : Get(result.a[i], K_headline) \notin Excluded


\* text made of white space, fence markers and ellipses only
IsBlank(s) ==
    \A i \in 1..Len(s) : s[i] \in Whitespace \cup {Backtick, ".", "\\u2026"}

\* prose: text without "{", "[" or a fence that is not itself a JSON literal
IsProse(s) ==
    /\ \A i \in 1..Len(s) : s[i] \notin {"{", "[", Backtick}
    /\ ~JsonParse(s).ok

\* the text holds no JSON value
HoldsNoJson(text) == ~Truthy(text) \/ IsBlank(text.s) \/ IsProse(text.s)

\* C15: safeJsonParse never throws and returns nil for every text that holds
\* no JSON value: empty text, text of white space, fence markers or ellipses
\* only, and prose without "{" or "[" that is not itself a JSON literal.
C15_NilWithoutJson ==
    (op \in Orchestrators /\ pc = "done" /\ response # NoValue /\ HoldsNoJson(response))
        => parsedData = Null


\* the opening and closing lines of a ```json fenced block
OpenFence == Fence \o <<"j", "s", "o", "n", "\n">>

CloseFence == <<"\n">> \o Fence

\* the text is one ```json fenced block
IsFencedBlock(s) ==
    /\ Len(s) >= Len(OpenFence) + Len(CloseFence)
    /\ startsWith(s, OpenFence)
    /\ HasAt(s, Len(s) - Len(CloseFence) + 1, CloseFence)

\* what the fenced block wraps
Wrapped(s) == SubSeq(s, Len(OpenFence) + 1, Len(s) - Len(CloseFence))

\* C16: round trip through fences: when the text is the serialisation of a
\* JSON value v wrapped in a ```json fenced block, safeJsonParse yields a value
\* equal to v, also for strings that contain "...".
C16_FencedRoundTrip ==
    (op \in Orchestrators /\ pc = "done" /\ response.t = "string" /\ IsFencedBlock(response.s))
        => \A v \in {JsonParse(Wrapped(response.s))} : v.ok => parsedData = v.v


\* C17: truncation repair recovers nested containers: for the text
\* {"name": "Tokyo", "funFacts": ["fact1", "fact2 (cut inside a string that
\* sits in an array nested in an object), repairTruncatedJson followed by
\* JSON.parse succeeds and yields {"name": "Tokyo", "funFacts": ["fact1", "fact2"]}.
C17_RepairRecoversNested ==
    (op \in Orchestrators /\ pc = "done" /\ response = Str(T_tokyo))
        => \A p \in {JsonParse(repairTruncatedJson(response.s))} :
              p.ok /\ p.v = JsonParse(T_tokyoWhole).v


\* the conversational-refusal markers
RefusalMarkers ==
    {<<"i", " ", "a", "m">>, <<"s", "o", "r", "r", "y">>,
     <<"i", " ", "c", "a", "n", "n", "o", "t">>,
     <<"u", "n", "f", "o", "r", "t", "u", "n", "a", "t", "e", "l", "y">>,
     <<"p", "l", "e", "a", "s", "e">>}

\* the text declines to answer: its trimmed, lower-cased form begins with a
\* refusal marker, or it is "I'm sorry, I cannot help with that request."
DeclinesToAnswer(s) ==
    \/ \E marker \in RefusalMarkers : startsWith(trim(toLowerCase(s)), marker)
    \/ s = T_imSorry

\* C18: refusal suppression: for a text from which no JSON value is recovered
\* and that declines to answer, safeJsonParse returns nil and the
\* parse-failure error is not logged.
C18_RefusalNotLogged ==
    (op \in Orchestrators /\ pc = "done" /\ response.t = "string"
        /\ DeclinesToAnswer(response.s) /\ ExtractJson(response.s)[1] = 0)
        => (parsedData = Null /\ ~parseFailureLogged)


\* a location record has been returned: by getInfoFromCoordinates, or inside a
\* non-nil result of resolveLocationQuery
HasRecord ==
    /\ pc = "done"
    /\ outcome = "returned"
    /\ \/ op = "getInfoFromCoordinates"
       \/ op = "resolveLocationQuery" /\ result # Null

ReturnedRecord ==
    IF op = "resolveLocationQuery" THEN Get(result, K_locationInfo) ELSE result

\* the list fields the model fills
ModelLists == {K_funFacts, K_notable}

HasResolution ==
    op = "resolveLocationQuery" /\ pc = "done" /\ outcome = "returned" /\ result # Null

\* the zoom the model supplied and the zoom that is returned
ModelZoom == Get(parsedData, K_suggestedZoom)

ReturnedZoom == Get(result, K_suggestedZoom)

\* a number within 0..10
InZoomRange(v) ==
    /\ v.t = "number"
    /\ ~v.neg \/ (v.int = 0 /\ v.frac = <<>>)
    /\ v.int < 10 \/ (v.int = 10 /\ v.frac = <<>>)

MessageContains(error, needle) ==
    error.message.k = "string" /\ includes(error.message.s, needle)

\* the error shows one of the seven rate-limit signatures
HasSignature(error) ==
    \/ error.status = 429
    \/ error.code = 429
    \/ MessageContains(error, S_429)
    \/ MessageContains(error, S_Quota)
    \/ MessageContains(error, S_RESOURCE_EXHAUSTED)
    \/ error.error.k = "object" /\ error.error.code = 429
    \/ error.error.k = "object" /\ error.error.status = S_RESOURCE_EXHAUSTED

\* C22: an error that shows any one of the rate-limit signatures (status 429,
\* code 429, a message containing "429", "Quota" or "RESOURCE_EXHAUSTED", a
\* nested error with code 429 or status "RESOURCE_EXHAUSTED") is treated as
\* rate-limited and retried while budget remains: the invoker surfaces such an
\* error only when no retry is left.
C22_SignatureIsRetried ==
    (lastError # NoError /\ HasSignature(lastError)) => retries = 0


(***************************************************************************)
(* Properties of invocations that run side by side                         *)
(***************************************************************************)
\* the invocation called with budget n after the outcomes of history, alone
RECURSIVE Replay(_, _)
Replay(n, history) ==
    IF history = <<>> THEN Started(n)
    ELSE InvokerStep(Replay(n, SubSeq(history, 1, Len(history) - 1)),
                     history[Len(history)])

\* the retries invocation inv has taken
RetriesTaken(inv) == Cardinality({k \in 1..Len(inv.history) : inv.history[k] = TimerFired})

\* C23: concurrent invocations are independent: however the remote calls and
\* sleeps of two invocations interleave, each one is where it would be had it
\* run alone with the outcomes of its own remote calls: its calls, its delays
\* and the retries it has left depend on its own budget and history only, and
\* nothing the other does takes a retry from it.
C23_InvocationsIndependent ==
    \A i \in Ids :
        inflight[i].pc # "idle"
            => /\ inflight[i] = Replay(inflight[i].budget, inflight[i].history)
               /\ inflight[i].retries = inflight[i].budget - RetriesTaken(inflight[i])
               /\ inflight[i].calls = 1 + RetriesTaken(inflight[i])

\* one invocation used up its budget of 3 and was rejected while the other, in
\* its first sleep, still has its own 3 retries
C23_Witness ==
    /\ inflight[1].pc = "rejected"
    /\ inflight[1].budget = 3
    /\ inflight[1].retries = 0
    /\ inflight[1].calls = 4
    /\ inflight[2].pc = "sleeping"
    /\ inflight[2].budget = 3
    /\ inflight[2].retries = 3
    /\ Len(inflight[2].sleeps) = 1


(***************************************************************************)
(* Properties of safeJsonParse's strategies                                *)
(***************************************************************************)
\* JSON.parse of the cleaned candidate
DirectParse(candidate) == JsonParse(cleanJsonString(candidate))

\* JSON.parse of the repair of the cleaned candidate
RepairedParse(candidate) == JsonParse(repairTruncatedJson(cleanJsonString(candidate)))

\* what one strategy yields for its candidate: the direct parse, and the
\* repaired parse only when the direct parse failed
Attempt(candidate, direct) == IF direct.ok THEN direct ELSE RepairedParse(candidate)

\* value is what the three attempts give in order: the fenced block's if the
\* text has one and it parsed, else the brace candidate's if the text has a
\* "{" or "[" and it parsed, else the whole text's, else nil
FirstSuccess(value, fenced, fence, braced, brace, whole) ==
    value = IF fenced /\ fence.ok THEN fence.v
            ELSE IF braced /\ brace.ok THEN brace.v
            ELSE IF whole.ok THEN whole.v
            ELSE Null

HasFence(s) ==
    \E p \in 1..Len(s) : HasAt(s, p, Fence) /\ IndexOfFrom(s, Fence, FenceBodyStart(s, p)) # 0

HasBrace(s) == \E i \in 1..Len(s) : s[i] \in {"{", "["}

\* C24: the extraction strategies run in a fixed order and the first success
\* wins: the value of the fenced block when its cleaned interior parses,
\* directly or after repair, whatever "{" or "[" stand elsewhere; the
\* first-brace/last-brace candidate only when there is no fence or the fence
\* failed; the whole text only after both; and in each strategy the repaired
\* parse only after the direct parse failed.
C24_FirstSuccessWins ==
    (op \in Orchestrators /\ pc = "done" /\ response.t = "string" /\ response.s # <<>>)
        => FirstSuccess(parsedData,
                        HasFence(response.s),
                        Attempt(FenceInterior(response.s), DirectParse(FenceInterior(response.s))),
                        HasBrace(response.s),
                        Attempt(BraceCandidate(response.s), DirectParse(BraceCandidate(response.s))),
                        Attempt(response.s, DirectParse(response.s)))

\* the fenced list was returned although an object stands before the fence
C24_Witness ==
    /\ op \in Orchestrators
    /\ pc = "done"
    /\ response = Str(T_fenceAmongBraces)
    /\ parsedData = Arr(<<Num(1)>>)
    /\ DirectParse(BraceCandidate(response.s)).ok


(***************************************************************************)
(* Properties of repairTruncatedJson                                       *)
(***************************************************************************)
\* the double quotes that delimit: those after an even number of backslashes
Delimiters(s) ==
    {i \in 1..Len(s) : s[i] = "\"" /\ BackslashesBefore(s, i) % 2 = 0}

\* the text ends inside a string: it holds an odd number of delimiting quotes
EndsInside(s) == Cardinality(Delimiters(s)) % 2 = 1

\* the double quotes of s from position i on
QuotesFrom(s, i) == {k \in i..Len(s) : s[k] = "\""}

\* C25: string-state tracking in repairTruncatedJson: a double quote toggles
\* the inside-string state exactly when an even number of consecutive
\* backslashes stands before it; the function appends exactly one closing
\* quote, right after the trimmed candidate, if and only if the scan ends
\* inside a string, and otherwise appends no quote.
C25_ClosesOpenString ==
    (repair.called /\ trim(repair.jsonStr) # <<>>)
        => /\ SubSeq(repair.returned, 1, Len(trim(repair.jsonStr))) = trim(repair.jsonStr)
           /\ QuotesFrom(repair.returned, Len(trim(repair.jsonStr)) + 1)
                 = IF EndsInside(trim(repair.jsonStr))
                   THEN {Len(trim(repair.jsonStr)) + 1} ELSE {}

\* a candidate that ends inside a string, after an escaped quote, got one
\* closing quote
C25_Witness ==
    /\ repair.called
    /\ repair.jsonStr = <<"\"", "\\", "\"">>
    /\ repair.returned = <<"\"", "\\", "\"", "\"">>



\* the positions of s from i on that lie outside every string literal, the
\* literals being taken from left to right
RECURSIVE OutsideLiterals(_, _)
OutsideLiterals(s, i) ==
    IF i > Len(s) THEN {}
    ELSE IF s[i] = "\"" /\ StringLiteralEnd(s, i + 1) # 0
         THEN OutsideLiterals(s, StringLiteralEnd(s, i + 1) + 1)
         ELSE {i} \cup OutsideLiterals(s, i + 1)

\* how many more opener than closer stand outside the string literals of s
Unmatched(s, opener, closer) ==
    Cardinality({i \in OutsideLiterals(s, 1) : s[i] = opener})
        - Cardinality({i \in OutsideLiterals(s, 1) : s[i] = closer})

\* closed is base followed by one "}" for each unmatched "{" of base and then
\* one "]" for each unmatched "[", nothing for a kind that has none
ClosesContainers(closed, base) ==
    closed = base \o [k \in 1..Unmatched(base, "{", "}") |-> "}"]
                  \o [k \in 1..Unmatched(base, "[", "]") |-> "]"]

\* C26: repairTruncatedJson only appends: its result is the trimmed input,
\* then at most one closing quote, then one "}" for each opening brace not
\* matched by a closing one and then one "]" for each unmatched opening
\* bracket, those inside string literals not counted; nothing is appended for
\* a kind whose closers equal or outnumber its openers, and an input that is
\* empty after trimming yields {}.
C26_OnlyAppendsClosers ==
    repair.called
        => IF trim(repair.jsonStr) = <<>> THEN repair.returned = <<"{", "}">>
           ELSE \E quote \in {<<>>, <<"\"">>} :
                   ClosesContainers(repair.returned, trim(repair.jsonStr) \o quote)

\* an object that holds a list that holds an open string got the quote, then
\* the brace, then the bracket
C26_Witness ==
    /\ repair.called
    /\ repair.jsonStr = <<"{", "[", "\"">>
    /\ repair.returned = <<"{", "[", "\"", "\"", "}", "]">>


(***************************************************************************)
(* Properties of the coordinates getInfoFromCoordinates returns            *)
(***************************************************************************)
\* v is a record with a numeric lat and a numeric lng
IsNumericPoint(v) == Get(v, K_lat).t = "number" /\ Get(v, K_lng).t = "number"

\* the parsed reply has no coordinates, or a lat or lng that is not a number
LacksNumericPoint(data) ==
    ~Truthy(Get(data, K_coordinates)) \/ ~IsNumericPoint(Get(data, K_coordinates))

\* C27: whenever the parsed reply handed to getInfoFromCoordinates(lat, lng)
\* has coordinates missing, or a lat or a lng that is not a number, the
\* returned record's coordinates are the input {lat, lng}; so the returned
\* coordinates always have a numeric lat and a numeric lng.
C27_NumericCoordinates ==
    (LocationReturned /\ response # NoValue)
        => /\ LacksNumericPoint(parsedData)
                 => Get(result, K_coordinates) = Coordinates(lat, lng)
           /\ IsNumericPoint(Get(result, K_coordinates))


(***************************************************************************)
(* C28: the news shown always belongs to the shown location: whatever the  *)
(* interleaving of marker clicks, waypoint loads, searches, panel closes   *)
(* and load-more-news requests with their completions, every news item of  *)
(* the App's locationInfo was fetched for a query equal to that            *)
(* locationInfo's name.                                                    *)
(***************************************************************************)
C28_NewsBelongsToShownLocation ==
    app.locationInfo.present =>
        \A i \in 1..Len(app.locationInfo.news) :
            app.locationInfo.news[i].query = app.locationInfo.name

(***************************************************************************)
(* C29: the latest selection wins: once every outstanding request has      *)
(* completed, the locationInfo on show is the record produced for the most *)
(* recently issued location request (marker click, waypoint load or        *)
(* search), never the record of an earlier one.                            *)
(***************************************************************************)
C29_LatestSelectionWins ==
    (app.pending = {} /\ app.requests \in app.produced /\ app.locationInfo.present) =>
        app.locationInfo.request = app.requests

(***************************************************************************)
(* C30: the route cursor invariant: in every reachable App state           *)
(* currentWaypointIndex is -1 or a valid index of routeWaypoints           *)
(* (0 <= index < length), routes with an empty waypoint list included.     *)
(***************************************************************************)
C30_RouteCursorValid ==
    \/ app.currentWaypointIndex = -1
    \/ /\ 0 <= app.currentWaypointIndex
       /\ app.currentWaypointIndex < Len(app.routeWaypoints)

====
